---- MODULE Spec2Model ----
(***************************************************************************)
(* A model of vite-console-forward-plugin: the client half that the plugin *)
(* serves as the virtual module 'virtual:console-forward' (console         *)
(* wrappers, log buffer, delay timer, fetch) and the server half           *)
(* (the connect middleware that ingests batches and writes them through    *)
(* per-module Vite loggers).                                               *)
(*                                                                         *)
(* JavaScript runs every handler to completion, so each handler is one     *)
(* action.  The handlers are written as operators from a client state      *)
(* record to a client state record, because they call each other           *)
(* (flushLogs -> sendLogs -> console.warn -> addToBuffer).                 *)
(***************************************************************************)
EXTENDS Integers, Sequences, FiniteSets, TLC

VARIABLES
    \* ---- plugin options baked into the generated client module
    enabled,                \* options.enabled
    levels,                 \* options.levels: the console methods that get patched
    SILENT_ON_ERROR,        \* options.silentOnError
    forwardErrors,          \* options.forwardErrors
    injectPatterns,         \* options.injectPatterns
    excludePatterns,        \* options.excludePatterns
    \* ---- the runtime the client module runs in
    hasFetch,               \* FALSE: calling fetch throws synchronously (no fetch global)
    hasWindow,              \* typeof window !== 'undefined'
    isWorker,               \* self instanceof WorkerGlobalScope
    isServiceWorker,        \* self instanceof ServiceWorkerGlobalScope
    \* ---- the build
    files,                  \* the artifacts Vite serves, as the plugin's hooks left them
    \* ---- client module state
    loaded,                 \* the client module was evaluated: console is patched
    currentModuleContext,
    logBuffer,              \* sequence of log entries
    flushTimeout,           \* 0 is null, otherwise the id setTimeout returned
    timers,                 \* ids of the delay timers pending in the runtime
    inflight,               \* fetch calls whose promise has not settled
    clock,                  \* number of log entries created so far
    fetchCount,             \* number of fetch calls made so far
    tasks,                  \* number of application tasks run so far
    reports,                \* number of send failures reported with console.warn
    \* ---- observation of the client
    trace,                  \* what the handler that ran last did, in order
    sentStamps,             \* timestamps of the entries handed to fetch so far
    resentStamps,           \* timestamps handed to fetch more than once
    failedStamps,           \* timestamps of the entries of batches whose send failed
    \* ---- server state
    loggerCache,            \* module names that have a logger
    requests,               \* the requests the middleware was called with, in order
    srvTrace                \* what the server handler that ran last did, in order

clientVars == <<loaded, currentModuleContext, logBuffer, flushTimeout, timers, inflight,
                clock, fetchCount, tasks, reports, trace, sentStamps, resentStamps, failedStamps>>
configVars == <<enabled, levels, SILENT_ON_ERROR, forwardErrors, injectPatterns,
                excludePatterns, hasFetch, hasWindow, isWorker, isServiceWorker>>
buildVars == <<files>>
serverVars == <<loggerCache, requests, srvTrace>>
vars == <<configVars, buildVars, clientVars, serverVars>>

\* requests the server is sent in one behaviour
MaxRequests == 2

----------------------------------------------------------------------------
(* Bounds of the model *)

\* (MaxRequests, above, bounds the server's requests)
\* application tasks (a console call, a rapid-logging burst) in one behaviour
MaxTasks == 2
\* send failures reported with console.warn in one behaviour
MaxReports == 2
\* bursts longer than the threshold in one behaviour
MaxBursts == 1

(* Program constants *)

FLUSH_DELAY == 100
MAX_BUFFER_SIZE == 50

AllLevels == {"log", "warn", "error", "info", "debug"}

----------------------------------------------------------------------------
(* JavaScript values passed to console methods.  A text is a sequence of   *)
(* tokens; Str glues it into one string.                                   *)

RECURSIVE Str(_)
Str(text) == IF text = <<>> THEN "" ELSE Head(text) \o Str(Tail(text))

RECURSIVE Join(_, _)
Join(segs, sep) ==
    IF segs = <<>> THEN ""
    ELSE IF Len(segs) = 1 THEN segs[1]
    ELSE segs[1] \o sep \o Join(Tail(segs), sep)

IsWhitespace(tok) == tok \in {" ", "\n", "    ", "\t"}

StartsWith(text, prefix) ==
    /\ Len(prefix) <= Len(text)
    /\ SubSeq(text, 1, Len(prefix)) = prefix

Slice(text, n) == SubSeq(text, n + 1, Len(text))

RECURSIVE TrimStart(_)
TrimStart(text) ==
    IF text # <<>> /\ IsWhitespace(Head(text)) THEN TrimStart(Tail(text)) ELSE text

JsUndefined == [t |-> "undefined"]
JsNull == [t |-> "null"]
JsString(v) == [t |-> "string", v |-> v]
JsNumber(v) == [t |-> "number", str |-> v]
JsBoolean(v) == [t |-> "boolean", str |-> v]
\* an Error instance, or any value with a string 'stack' field
JsErrorLike(str, stack) == [t |-> "errorlike", str |-> str, stack |-> stack]
\* a plain object: json is what JSON.parse(JSON.stringify(arg)) returns, or
\* "throws" when the round trip throws; str is String(arg), or "throws"
\* when the object cannot be converted to a string (no toString to inherit)
JsObject(json, str) == [t |-> "object", json |-> json, str |-> str]

----------------------------------------------------------------------------
(* The client module: 'virtual:console-forward' *)

\* The client state the handlers work on.
Cur == [ loaded |-> loaded, currentModuleContext |-> currentModuleContext,
         logBuffer |-> logBuffer, flushTimeout |-> flushTimeout,
         timers |-> timers, inflight |-> inflight, clock |-> clock,
         fetchCount |-> fetchCount, tasks |-> tasks, reports |-> reports,
         trace |-> <<>>,
         sentStamps |-> sentStamps, resentStamps |-> resentStamps,
         failedStamps |-> failedStamps,
         threw |-> FALSE ]

Commit(s) ==
    /\ loaded' = s.loaded
    /\ currentModuleContext' = s.currentModuleContext
    /\ logBuffer' = s.logBuffer
    /\ flushTimeout' = s.flushTimeout
    /\ timers' = s.timers
    /\ inflight' = s.inflight
    /\ clock' = s.clock
    /\ fetchCount' = s.fetchCount
    /\ tasks' = s.tasks
    /\ reports' = s.reports
    /\ trace' = s.trace
    /\ sentStamps' = s.sentStamps
    /\ resentStamps' = s.resentStamps
    /\ failedStamps' = s.failedStamps

Did(s, e) == [s EXCEPT !.trace = Append(@, e)]

Stamps(logs) == { logs[i].timestamp : i \in 1..Len(logs) }

\* how the trace names a batch: the timestamps of its entries, in order
StampSeq(logs) == [i \in 1..Len(logs) |-> logs[i].timestamp]
Range(seq) == { seq[i] : i \in 1..Len(seq) }

\* (mutant) the placeholder counts the extra values from 0
formatArg_ZeroBased(arg, acc) ==
    IF arg.t = "undefined" THEN [acc EXCEPT !.segs = Append(@, "undefined")]
    ELSE IF arg.t = "string" THEN [acc EXCEPT !.segs = Append(@, arg.v)]
    ELSE IF arg.t = "null" THEN
        \* null instanceof Error is false, so typeof arg.stack is evaluated
        [acc EXCEPT !.threw = TRUE]
    ELSE IF arg.t = "errorlike" THEN
        LET stringifiedError == arg.str
            stack == IF StartsWith(arg.stack, stringifiedError)
                     THEN TrimStart(Slice(arg.stack, Len(stringifiedError)))
                     ELSE arg.stack
        IN [acc EXCEPT !.segs = Append(@, Str(stringifiedError)),
                       !.stacks = IF arg.stack # <<>> /\ stack # <<>>
                                  THEN Append(@, stack) ELSE @]
    ELSE IF arg.t = "object" THEN
        IF arg.json = "throws" /\ arg.str = "throws"
        THEN \* String(arg) in the catch block throws in its turn
             [acc EXCEPT !.threw = TRUE]
        ELSE
        LET extra == Append(acc.extra,
                            IF arg.json = "throws" THEN arg.str ELSE arg.json)
        IN [acc EXCEPT !.extra = extra,
                       !.segs = Append(@, "[extra#" \o ToString(Len(acc.extra)) \o "]")]
    ELSE [acc EXCEPT !.segs = Append(@, arg.str)]

\* (mutant) the stack keeps its leading copy of the error's string form
formatArg_KeepsCopy(arg, acc) ==
    IF arg.t = "undefined" THEN [acc EXCEPT !.segs = Append(@, "undefined")]
    ELSE IF arg.t = "string" THEN [acc EXCEPT !.segs = Append(@, arg.v)]
    ELSE IF arg.t = "null" THEN
        \* null instanceof Error is false, so typeof arg.stack is evaluated
        [acc EXCEPT !.threw = TRUE]
    ELSE IF arg.t = "errorlike" THEN
        LET stringifiedError == arg.str
            stack == arg.stack
        IN [acc EXCEPT !.segs = Append(@, Str(stringifiedError)),
                       !.stacks = IF arg.stack # <<>> /\ stack # <<>>
                                  THEN Append(@, stack) ELSE @]
    ELSE IF arg.t = "object" THEN
        IF arg.json = "throws" /\ arg.str = "throws"
        THEN \* String(arg) in the catch block throws in its turn
             [acc EXCEPT !.threw = TRUE]
        ELSE
        LET extra == Append(acc.extra,
                            IF arg.json = "throws" THEN arg.str ELSE arg.json)
        IN [acc EXCEPT !.extra = extra,
                       !.segs = Append(@, "[extra#" \o ToString(Len(extra)) \o "]")]
    ELSE [acc EXCEPT !.segs = Append(@, arg.str)]

\* args.map callback of createLogEntry: one argument, given the stacks and
\* extra collected so far.  threw: the callback raised a TypeError.
formatArg(arg, acc) ==
    IF arg.t = "undefined" THEN [acc EXCEPT !.segs = Append(@, "undefined")]
    ELSE IF arg.t = "string" THEN [acc EXCEPT !.segs = Append(@, arg.v)]
    ELSE IF arg.t = "null" THEN
        \* null instanceof Error is false, so typeof arg.stack is evaluated
        [acc EXCEPT !.threw = TRUE]
    ELSE IF arg.t = "errorlike" THEN
        LET stringifiedError == arg.str
            stack == IF StartsWith(arg.stack, stringifiedError)
                     THEN TrimStart(Slice(arg.stack, Len(stringifiedError)))
                     ELSE arg.stack
        IN [acc EXCEPT !.segs = Append(@, Str(stringifiedError)),
                       !.stacks = IF arg.stack # <<>> /\ stack # <<>>
                                  THEN Append(@, stack) ELSE @]
    ELSE IF arg.t = "object" THEN
        IF arg.json = "throws" /\ arg.str = "throws"
        THEN \* String(arg) in the catch block throws in its turn
             [acc EXCEPT !.threw = TRUE]
        ELSE
        LET extra == Append(acc.extra,
                            IF arg.json = "throws" THEN arg.str ELSE arg.json)
        IN [acc EXCEPT !.extra = extra,
                       !.segs = Append(@, "[extra#" \o ToString(Len(extra)) \o "]")]
    ELSE [acc EXCEPT !.segs = Append(@, arg.str)]

RECURSIVE formatArgs(_, _)
formatArgs(args, acc) ==
    IF args = <<>> \/ acc.threw THEN acc
    ELSE formatArgs(Tail(args), formatArg(Head(args), acc))

\* createLogEntry(level, args) in client state s: the entry, or threw.
createLogEntry(level, args, s) ==
    LET r == formatArgs(args, [segs |-> <<>>, stacks |-> <<>>, extra |-> <<>>,
                               threw |-> FALSE])
    IN [ threw |-> r.threw,
         entry |-> [ level |-> level,
                     message |-> Join(r.segs, " "),
                     timestamp |-> s.clock + 1,
                     url |-> IF hasWindow THEN "http://localhost:5173/"
                             ELSE "extension-context",
                     module |-> s.currentModuleContext,
                     stacks |-> r.stacks,
                     extra |-> r.extra ] ]

RECURSIVE consoleMethod(_, _, _)
RECURSIVE addToBuffer(_, _)
RECURSIVE flushLogs(_)
RECURSIVE sendLogs(_, _)
RECURSIVE sendLogsCatch(_, _, _)

\* (mutant) the catch block puts the failed batch back at the head of the buffer
sendLogsCatch_Requeue(logs, message, s) ==
    [Did(s, [op |-> "catch", logs |-> StampSeq(logs)])
       EXCEPT !.failedStamps = @ \cup Stamps(logs),
              !.logBuffer = logs \o @]

\* (mutant) the catch block warns whatever SILENT_ON_ERROR is
sendLogsCatch_IgnoresSilent(logs, message, s) ==
    consoleMethod("warn",
                  << JsString("[Console Forward] Failed to send logs:"),
                     JsString(message) >>,
                  [Did(Did(s, [op |-> "catch", logs |-> StampSeq(logs)]),
                       [op |-> "report", logs |-> StampSeq(logs)])
                     EXCEPT !.failedStamps = @ \cup Stamps(logs),
                            !.reports = @ + 1])

\* The catch block of sendLogs, reached when fetch throws or its promise
\* rejects.  console.warn is looked up when the block runs, so it is the
\* patched method when "warn" is one of the levels.
sendLogsCatch(logs, message, s) ==
    LET s1 == [Did(s, [op |-> "catch", logs |-> StampSeq(logs)])
                 EXCEPT !.failedStamps = @ \cup Stamps(logs)]
    IN IF ~SILENT_ON_ERROR
       THEN consoleMethod("warn",
                          << JsString("[Console Forward] Failed to send logs:"),
                             JsString(message) >>,
                          [Did(s1, [op |-> "report", logs |-> StampSeq(logs)])
                             EXCEPT !.reports = @ + 1])
       ELSE s1

\* (mutant) sendLogs returns when the response of its request is there
sendLogs_Blocking(logs, s) ==
    LET s1 == [Did(s, [op |-> "sendLogs", logs |-> StampSeq(logs)])
                 EXCEPT !.resentStamps = @ \cup (Stamps(logs) \cap s.sentStamps),
                        !.sentStamps = @ \cup Stamps(logs)]
    IN IF hasFetch
       THEN [Did(Did(s1, [op |-> "fetch", req |-> s1.fetchCount + 1,
                          logs |-> StampSeq(logs)]),
                 [op |-> "settled", req |-> s1.fetchCount + 1,
                  logs |-> StampSeq(logs), outcome |-> "ok"])
               EXCEPT !.fetchCount = @ + 1]
       ELSE sendLogsCatch(logs, "fetch is not defined", s1)

\* sendLogs(logs) up to its await: the batch goes into one fetch call.  The
\* promise settles in a later task (FetchSettles).
sendLogs(logs, s) ==
    LET s1 == [Did(s, [op |-> "sendLogs", logs |-> StampSeq(logs)])
                 EXCEPT !.resentStamps = @ \cup (Stamps(logs) \cap s.sentStamps),
                        !.sentStamps = @ \cup Stamps(logs)]
    IN IF hasFetch
       THEN [Did(s1, [op |-> "fetch", req |-> s1.fetchCount + 1,
                      logs |-> StampSeq(logs)])
               EXCEPT !.fetchCount = @ + 1,
                      !.inflight = @ \cup {[req |-> s1.fetchCount + 1, logs |-> logs]}]
       ELSE sendLogsCatch(logs, "fetch is not defined", s1)

\* what flushLogs leaves behind when it returns
Returned(s) == Did(s, [op |-> "flushReturn", buffered |-> StampSeq(s.logBuffer),
                       flushTimeout |-> s.flushTimeout, timers |-> s.timers])

\* (mutant) the flush sends the buffer without emptying it
flushLogs_KeepsBuffer(s) ==
    IF Len(s.logBuffer) = 0 THEN s
    ELSE LET s0 == Did(s, [op |-> "flushLogs", buffered |-> StampSeq(s.logBuffer)])
             s1 == sendLogs(s.logBuffer, s0)
         IN IF s1.flushTimeout # 0
            THEN Returned([Did(s1, [op |-> "clearTimeout", timer |-> s1.flushTimeout])
                             EXCEPT !.timers = @ \ {s1.flushTimeout},
                                    !.flushTimeout = 0])
            ELSE Returned(s1)

flushLogs(s) ==
    IF Len(s.logBuffer) = 0 THEN s
    ELSE LET logsToSend == s.logBuffer
             s0 == Did(s, [op |-> "flushLogs", buffered |-> StampSeq(s.logBuffer)])
             s1 == sendLogs(logsToSend, [s0 EXCEPT !.logBuffer = <<>>])
         IN IF s1.flushTimeout # 0
            THEN Returned([Did(s1, [op |-> "clearTimeout", timer |-> s1.flushTimeout])
                             EXCEPT !.timers = @ \ {s1.flushTimeout},
                                    !.flushTimeout = 0])
            ELSE Returned(s1)

\* The id setTimeout returns: one the runtime has not handed out to a timer
\* that is pending or still referenced.
NewTimer(s) ==
    CHOOSE t \in 1..(Cardinality(s.timers) + 2) :
        /\ t \notin s.timers \cup {s.flushTimeout}
        /\ \A u \in 1..(t - 1) : u \in s.timers \cup {s.flushTimeout}

\* (mutant) addToBuffer schedules a timer without looking at flushTimeout
addToBuffer_AlwaysSchedules(entry, s) ==
    LET s1 == [Did(s, [op |-> "push", stamp |-> entry.timestamp,
                      buffered |-> Len(s.logBuffer) + 1])
                 EXCEPT !.logBuffer = Append(@, entry)]
    IN IF Len(s1.logBuffer) >= MAX_BUFFER_SIZE
       THEN flushLogs(s1)
       ELSE LET t == NewTimer(s1)
            IN [Did(s1, [op |-> "setTimeout", timer |-> t, delay |-> FLUSH_DELAY,
                         pending |-> s1.timers])
                  EXCEPT !.timers = @ \cup {t},
                         !.flushTimeout = t]

\* (mutant) addToBuffer leaves every flush to the timer
addToBuffer_NoThreshold(entry, s) ==
    LET s1 == [Did(s, [op |-> "push", stamp |-> entry.timestamp,
                      buffered |-> Len(s.logBuffer) + 1])
                 EXCEPT !.logBuffer = Append(@, entry)]
    IN IF s1.flushTimeout = 0
       THEN LET t == NewTimer(s1)
            IN [Did(s1, [op |-> "setTimeout", timer |-> t, delay |-> FLUSH_DELAY,
                         pending |-> s1.timers])
                  EXCEPT !.timers = @ \cup {t},
                         !.flushTimeout = t]
       ELSE s1

\* (mutant) addToBuffer flushes only past the threshold
addToBuffer_OffByOne(entry, s) ==
    LET s1 == [Did(s, [op |-> "push", stamp |-> entry.timestamp,
                      buffered |-> Len(s.logBuffer) + 1])
                 EXCEPT !.logBuffer = Append(@, entry)]
    IN IF Len(s1.logBuffer) > MAX_BUFFER_SIZE
       THEN flushLogs(s1)
       ELSE IF s1.flushTimeout = 0
            THEN LET t == NewTimer(s1)
                 IN [Did(s1, [op |-> "setTimeout", timer |-> t, delay |-> FLUSH_DELAY,
                              pending |-> s1.timers])
                       EXCEPT !.timers = @ \cup {t},
                              !.flushTimeout = t]
            ELSE s1

addToBuffer(entry, s) ==
    LET s1 == [Did(s, [op |-> "push", stamp |-> entry.timestamp,
                      buffered |-> Len(s.logBuffer) + 1])
                 EXCEPT !.logBuffer = Append(@, entry)]
    IN IF Len(s1.logBuffer) >= MAX_BUFFER_SIZE
       THEN flushLogs(s1)
       ELSE IF s1.flushTimeout = 0
            THEN LET t == NewTimer(s1)
                 IN [Did(s1, [op |-> "setTimeout", timer |-> t, delay |-> FLUSH_DELAY,
                                pending |-> s1.timers])
                       EXCEPT !.timers = @ \cup {t},
                              !.flushTimeout = t]
            ELSE s1

\* (mutant) every console method is wrapped, whatever the levels are
consoleMethod_WrapsEveryLevel(level, args, s) ==
    LET s1 == Did(Did(s, [op |-> "console", level |-> level, args |-> args]),
                  [op |-> "original", level |-> level, args |-> args])
        made == createLogEntry(level, args, s1)
    IN IF made.threw
       THEN [Did(s1, [op |-> "throw"]) EXCEPT !.threw = TRUE]
       ELSE addToBuffer(made.entry, [s1 EXCEPT !.clock = @ + 1])

\* (mutant) the wrapper builds and enqueues the entry before it calls the
\* original method
consoleMethod_CaptureFirst(level, args, s) ==
    IF level \in levels
    THEN LET s1 == Did(s, [op |-> "console", level |-> level, args |-> args])
             made == createLogEntry(level, args, s1)
         IN IF made.threw
            THEN [Did(s1, [op |-> "throw"]) EXCEPT !.threw = TRUE]
            ELSE Did(addToBuffer(made.entry, [s1 EXCEPT !.clock = @ + 1]),
                     [op |-> "original", level |-> level, args |-> args])
    ELSE Did(s, [op |-> "native", level |-> level, args |-> args])

\* console.<level>(...args), as the application sees it: the wrapper when
\* the client module ran and patched the level, the native method otherwise.
consoleMethod(level, args, s) ==
    IF s.loaded /\ level \in levels
    THEN LET s1 == Did(Did(s, [op |-> "console", level |-> level, args |-> args]),
                       [op |-> "original", level |-> level, args |-> args])
             made == createLogEntry(level, args, s1)
         IN IF made.threw
            THEN [Did(s1, [op |-> "throw"]) EXCEPT !.threw = TRUE]
            ELSE addToBuffer(made.entry, [s1 EXCEPT !.clock = @ + 1])
    ELSE Did(s, [op |-> "native", level |-> level, args |-> args])

----------------------------------------------------------------------------
(* The wire: JSON.stringify({ logs }) on the client, JSON.parse(body) on   *)
(* the server.  A JSON text is a sequence of tokens, so that a body can    *)
(* arrive in chunks and a cut or foreign text fails to parse.              *)

Punct(p) == [k |-> "punct", p |-> p]
Value(v) == [k |-> "value", v |-> v]

RECURSIVE StringifyItems(_)
StringifyItems(logs) ==
    IF logs = <<>> THEN <<>>
    ELSE IF Len(logs) = 1 THEN << Value(logs[1]) >>
    ELSE << Value(logs[1]), Punct(",") >> \o StringifyItems(Tail(logs))

\* JSON.stringify({ logs })
Stringify(logs) ==
    << Punct("{\"logs\":[") >> \o StringifyItems(logs) \o << Punct("]}") >>

\* the elements of a JSON array body: value (, value)*
RECURSIVE ParseItems(_)
ParseItems(text) ==
    IF text[1].k # "value" THEN [threw |-> TRUE, logs |-> <<>>]
    ELSE IF Len(text) = 1 THEN [threw |-> FALSE, logs |-> << text[1].v >>]
    ELSE IF text[2] # Punct(",") \/ Len(text) = 2 THEN [threw |-> TRUE, logs |-> <<>>]
    ELSE LET rest == ParseItems(SubSeq(text, 3, Len(text)))
         IN [threw |-> rest.threw,
             logs |-> IF rest.threw THEN <<>> ELSE << text[1].v >> \o rest.logs]

\* (mutant) a text that is no JSON is read as the logs found in it
JSONparse_Lenient(text) ==
    [threw |-> FALSE,
     logs |-> LET vals == SelectSeq(text, LAMBDA tok : tok.k = "value")
              IN [i \in 1..Len(vals) |-> vals[i].v]]

\* const { logs } = JSON.parse(body): threw for a text that is no JSON;
\* the text {} parses to an object without logs (logs is undefined)
JSONparse(text) ==
    IF text = << Punct("{}") >> THEN [threw |-> FALSE, logs |-> <<>>, missing |-> TRUE]
    ELSE IF \/ Len(text) < 2
       \/ text[1] # Punct("{\"logs\":[")
       \/ text[Len(text)] # Punct("]}")
    THEN [threw |-> TRUE, logs |-> <<>>]
    ELSE IF Len(text) = 2 THEN [threw |-> FALSE, logs |-> <<>>]
    ELSE ParseItems(SubSeq(text, 2, Len(text) - 1))

----------------------------------------------------------------------------
(* The server: configureServer's middleware on the endpoint *)

SrvDid(v, e) == [v EXCEPT !.srvTrace = Append(@, e)]

\* getOrCreateLogger(moduleName): v is [loggerCache, srvTrace]
getOrCreateLogger(moduleName, v) ==
    IF moduleName \notin v.loggerCache
    THEN [SrvDid(v, [op |-> "createLogger", prefix |-> "[" \o moduleName \o "]"])
            EXCEPT !.loggerCache = @ \cup {moduleName}]
    ELSE v

\* stack.split("\n"): the lines of a text, each glued into a string
RECURSIVE SplitLines(_, _)
SplitLines(text, line) ==
    IF text = <<>> THEN << line >>
    ELSE IF Head(text) = "\n" THEN << line >> \o SplitLines(Tail(text), "")
    ELSE SplitLines(Tail(text), line \o Head(text))

\* (mutant) the lines are left at the margin
Indent_None(lines) == lines

Indent(lines) == [i \in 1..Len(lines) |-> "    " \o lines[i]]

\* JSON.stringify(log.extra, null, 2).split("\n") for a non-empty array
PrettyLines(extra) ==
    << "[" >> \o
    [i \in 1..Len(extra) |-> "  " \o extra[i] \o (IF i < Len(extra) THEN "," ELSE "")]
    \o << "]" >>

\* the message the forEach callback builds for one log
FormatMessage(log) ==
    LET location == IF log.url # "" THEN " (" \o log.url \o ")" ELSE ""
        base == "[" \o log.level \o "] " \o log.message \o location
        withStacks ==
            IF Len(log.stacks) > 0
            THEN base \o "\n" \o
                 Join([i \in 1..Len(log.stacks) |->
                          Join(Indent(SplitLines(log.stacks[i], "")), "\n")], "\n")
            ELSE base
    IN IF Len(log.extra) > 0
       THEN withStacks \o "\n    Extra data: " \o Join(Indent(PrettyLines(log.extra)), "\n")
       ELSE withStacks

\* (mutant) debug logs go to a method of their own
LoggerMethod_DebugChannel(level) ==
    CASE level = "error" -> "error"
      [] level = "warn" -> "warn"
      [] level = "debug" -> "debug"
      [] OTHER -> "info"

\* switch (log.level): the logger method the message goes to
LoggerMethod(level) ==
    CASE level = "error" -> "error"
      [] level = "warn" -> "warn"
      [] level = "info" -> "info"
      [] level = "debug" -> "info"
      [] OTHER -> "info"

\* A log whose stacks field holds an array has the field stacks; one whose
\* stacks field holds a non-empty string has the field stacksText instead.
StacksIsArray(log) == "stacks" \in DOMAIN log

\* the body of logs.forEach for one log; reading a field of a null entry
\* throws, and so does log.stacks.map when stacks is a non-empty string
\* (after the logger of the log's module was looked up)
forwardLog(log, v) ==
    IF log = JsNull THEN [v EXCEPT !.threw = TRUE] ELSE
    LET name == IF log.module # "" THEN log.module ELSE "unknown"
        v1 == getOrCreateLogger(name, v)
    IN IF ~StacksIsArray(log) THEN [v1 EXCEPT !.threw = TRUE] ELSE
       LET withError == log.level = "error" /\ Len(log.stacks) > 0
           error == IF withError
                    THEN Join([i \in 1..Len(log.stacks) |-> Str(log.stacks[i])], "\n")
                    ELSE ""
       IN SrvDid(v1, [op |-> "logger", name |-> name,
                      level |-> log.level,
                      method |-> LoggerMethod(log.level),
                      message |-> FormatMessage(log),
                      withError |-> withError,
                      error |-> error,
                      stamp |-> log.timestamp])

\* (mutant) the logs are forwarded last to first
RECURSIVE forEachLog_Reversed(_, _)
forEachLog_Reversed(logs, v) ==
    IF logs = <<>> \/ v.threw THEN v
    ELSE forEachLog_Reversed(SubSeq(logs, 1, Len(logs) - 1),
                             forwardLog(logs[Len(logs)], v))

RECURSIVE forEachLog(_, _)
forEachLog(logs, v) ==
    IF logs = <<>> \/ v.threw THEN v ELSE forEachLog(Tail(logs), forwardLog(Head(logs), v))

Respond(v, status, body) == SrvDid(v, [op |-> "respond", status |-> status, body |-> body])

\* (mutant) the success response is written before the logs are forwarded
onEnd_RespondsFirst(body, v) ==
    LET parsed == JSONparse(body)
        v0 == IF parsed.threw THEN v ELSE Respond(v, 200, "{\"success\":true}")
        v1 == IF parsed.threw THEN [v0 EXCEPT !.threw = TRUE]
              ELSE IF "missing" \in DOMAIN parsed THEN [v0 EXCEPT !.threw = TRUE]
              ELSE forEachLog(parsed.logs, v0)
    IN IF v1.threw
       THEN Respond(SrvDid(v1, [op |-> "serverError",
                                message |-> "Error processing client logs:"]),
                    400, "{\"error\":\"Invalid JSON\"}")
       ELSE v1

\* request.on("end", ...) for a request whose body text is body: the try
\* block, and the catch block when JSON.parse or the forEach threw
onEnd(body, v) ==
    LET parsed == JSONparse(body)
        v1 == IF parsed.threw THEN [v EXCEPT !.threw = TRUE]
              \* logs.forEach on undefined is a TypeError
              ELSE IF "missing" \in DOMAIN parsed THEN [v EXCEPT !.threw = TRUE]
              ELSE forEachLog(parsed.logs, v)
    IN IF v1.threw
       THEN Respond(SrvDid(v1, [op |-> "serverError",
                                message |-> "Error processing client logs:"]),
                    400, "{\"error\":\"Invalid JSON\"}")
       ELSE Respond(v1, 200, "{\"success\":true}")

----------------------------------------------------------------------------
(* Client actions: one per task the runtime can run *)

\* console calls the application makes: <<level, args>>
Calls == { <<"log", << JsString("hello") >> >>,
           <<"warn", << JsString("careful") >> >>,
           <<"log", << JsNull >> >> }

\* A handler's run is kept while the model's budgets last.
Within(s) == s.tasks <= MaxTasks /\ s.reports <= MaxReports

Start(name) == Did(Cur, [op |-> "task", name |-> name, buffered |-> Len(logBuffer)])
AppTask(name) == [Start(name) EXCEPT !.tasks = @ + 1]

\* The application calls console.<level>(...args).
ConsoleCall(level, args) ==
    /\ tasks < MaxTasks
    /\ LET s == consoleMethod(level, args, AppTask("console"))
       IN /\ Within(s)
          /\ Commit(s)
    /\ UNCHANGED <<configVars, buildVars, serverVars>>

\* The demo page's "Rapid Logging" button: n console.log calls in one task.
RECURSIVE rapidLogging(_, _)
rapidLogging(n, s) ==
    IF n = 0 \/ s.threw THEN s
    ELSE rapidLogging(n - 1, consoleMethod("log", << JsString("Rapid log") >>, s))

BurstSizes == {MAX_BUFFER_SIZE - 1, MAX_BUFFER_SIZE}

RapidLogging(n) ==
    /\ tasks < MaxTasks
    /\ LET s == rapidLogging(n, AppTask("rapid"))
       IN /\ Within(s)
          /\ Commit(s)
    /\ UNCHANGED <<configVars, buildVars, serverVars>>

\* The delay timer t fires: the runtime drops it and calls flushLogs.
TimerFires(t) ==
    /\ t \in timers
    /\ LET s == flushLogs([Start("timeout") EXCEPT !.timers = @ \ {t}])
       IN /\ Within(s)
          /\ Commit(s)
    /\ UNCHANGED <<configVars, buildVars, serverVars>>

\* (mutant) the interval leaves the flush to the delay timer when one is
\* pending
IntervalFires_LeavesItToTheTimer ==
    /\ loaded
    /\ LET s == IF flushTimeout # 0 THEN Start("interval")
                ELSE flushLogs(Start("interval"))
       IN /\ Within(s)
          /\ Commit(s)
    /\ UNCHANGED <<configVars, buildVars, serverVars>>

\* setInterval(flushLogs, 10000) fires.
IntervalFires ==
    /\ loaded
    /\ LET s == flushLogs(Start("interval"))
       IN /\ Within(s)
          /\ Commit(s)
    /\ UNCHANGED <<configVars, buildVars, serverVars>>

\* The window's beforeunload listener runs.
BeforeUnload ==
    /\ loaded
    /\ hasWindow
    /\ LET s == flushLogs(Start("beforeunload"))
       IN /\ Within(s)
          /\ Commit(s)
    /\ UNCHANGED <<configVars, buildVars, serverVars>>

\* The application calls flushLogs through the module's default export.
ExportedFlush ==
    /\ loaded
    /\ LET s == flushLogs(Start("export"))
       IN /\ Within(s)
          /\ Commit(s)
    /\ UNCHANGED <<configVars, buildVars, serverVars>>

\* How a fetch promise settles: fulfilled with a 2xx response, fulfilled
\* with another status (fetch does not reject on HTTP errors), or rejected
\* (network error, server absent).
Outcomes == {"ok", "non2xx", "rejected"}

FetchSettles(r, outcome) ==
    /\ r \in inflight
    /\ LET s0 == [Did(Start("settle"), [op |-> "settled", req |-> r.req,
                                        logs |-> StampSeq(r.logs),
                                        outcome |-> outcome])
                    EXCEPT !.inflight = @ \ {r}]
           s == IF outcome = "rejected"
                THEN sendLogsCatch(r.logs, "Failed to fetch", s0)
                ELSE s0
       IN /\ Within(s)
          /\ Commit(s)
    /\ UNCHANGED <<configVars, buildVars, serverVars>>

\* The options and the runtime the other specifications do not vary: the
\* defaults of the plugin, in a page, before any artifact was transformed.
Defaults ==
    /\ enabled = TRUE
    /\ forwardErrors = TRUE
    /\ injectPatterns = << "**/*.html" >>
    /\ excludePatterns = << "**/node_modules/**" >>
    /\ isWorker = FALSE
    /\ isServiceWorker = FALSE
    /\ files = <<>>

\* the variables of the client module as its top-level code sets them
ModuleInit ==
    /\ currentModuleContext = "unknown"
    /\ logBuffer = <<>>
    /\ flushTimeout = 0
    /\ timers = {}
    /\ inflight = {}
    /\ clock = 0
    /\ fetchCount = 0
    /\ tasks = 0
    /\ reports = 0
    /\ trace = <<>>
    /\ sentStamps = {}
    /\ resentStamps = {}
    /\ failedStamps = {}

\* the client module right after it was evaluated
ClientInit ==
    /\ loaded = TRUE
    /\ ModuleInit

ServerInit ==
    /\ loggerCache = {}
    /\ requests = <<>>
    /\ srvTrace = <<>>

Init ==
    /\ levels \in {AllLevels, AllLevels \ {"warn"}}
    /\ SILENT_ON_ERROR \in BOOLEAN
    /\ hasFetch \in BOOLEAN
    /\ hasWindow = TRUE
    /\ Defaults
    /\ ClientInit
    /\ ServerInit

Next ==
    \/ \E c \in Calls : ConsoleCall(c[1], c[2])
    \/ \E n \in BurstSizes : RapidLogging(n)
    \/ \E t \in timers : TimerFires(t)
    \/ IntervalFires
    \/ BeforeUnload
    \/ ExportedFlush
    \/ \E r \in inflight, outcome \in Outcomes : FetchSettles(r, outcome)

Spec == Init /\ [][Next]_vars

----------------------------------------------------------------------------
(* Bursts longer than the buffer's threshold *)

LargeBursts == {MAX_BUFFER_SIZE + 1, 2 * MAX_BUFFER_SIZE}

\* The page logs n times in one task, n above the threshold.
LargeBurst(n) ==
    /\ tasks < MaxBursts
    /\ RapidLogging(n)

BurstNext ==
    \/ \E n \in LargeBursts : LargeBurst(n)
    \/ \E t \in timers : TimerFires(t)
    \/ IntervalFires
    \/ \E r \in inflight, outcome \in Outcomes : FetchSettles(r, outcome)

SpecBurst == Init /\ [][BurstNext]_vars

----------------------------------------------------------------------------
(* Server actions: the middleware call and the request's stream events *)

PageUrl == "http://localhost:5173/"

LogA == [ level |-> "log", message |-> "hello", timestamp |-> 1, url |-> PageUrl,
          module |-> "app", stacks |-> <<>>, extra |-> <<>> ]
LogB == [ level |-> "error", message |-> "Error: boom", timestamp |-> 2,
          url |-> PageUrl, module |-> "checkout",
          stacks |-> << << "at f (a.js:1:1)", "\n", "at g (a.js:2:2)" >> >>,
          extra |-> <<>> ]
LogC == [ level |-> "warn", message |-> "careful [extra#1]", timestamp |-> 3,
          url |-> "", module |-> "", stacks |-> <<>>, extra |-> << "{\"a\":1}" >> ]
LogD == [ level |-> "debug", message |-> "detail", timestamp |-> 4, url |-> PageUrl,
          module |-> "app", stacks |-> <<>>, extra |-> <<>> ]

LogE == [ level |-> "error", message |-> "failed", timestamp |-> 5, url |-> PageUrl,
          module |-> "checkout", stacks |-> <<>>, extra |-> <<>> ]
LogF == [ level |-> "info", message |-> "ready", timestamp |-> 6, url |-> PageUrl,
          module |-> "app", stacks |-> <<>>, extra |-> <<>> ]
\* a level the client never produces
LogG == [ level |-> "verbose", message |-> "chatter", timestamp |-> 7, url |-> PageUrl,
          module |-> "cart", stacks |-> <<>>, extra |-> <<>> ]
\* stacks is a string, not an array
LogH == [ level |-> "log", message |-> "odd", timestamp |-> 8, url |-> PageUrl,
          module |-> "legacy", stacksText |-> "at f (a.js:1:1)", extra |-> <<>> ]

Batches == { << LogA, LogB >>, << LogC, LogA, LogD >>, << LogE, LogF, LogG, LogD >>, <<>> }

\* batches whose text is JSON but not of the expected shape: a null entry
\* or a string for stacks after a proper log
Misshapen == { << LogA, JsNull >>, << LogD, LogH >> }

\* a body text cut into two chunks after its k-th token
Chunks(text, k) == << SubSeq(text, 1, k), SubSeq(text, k + 1, Len(text)) >>

\* What a client may POST: the chunks of the body and, for reference, the
\* batch the body was made from (wellFormed: it was made by Stringify).
Payloads ==
    { [wellFormed |-> TRUE, json |-> TRUE, batch |-> b,
       chunks |-> Chunks(Stringify(b), 2)]
        : b \in Batches }
    \cup { [wellFormed |-> FALSE, json |-> TRUE, batch |-> b,
             chunks |-> Chunks(Stringify(b), 2)]
              : b \in Misshapen }
    \cup { [wellFormed |-> TRUE, json |-> TRUE, batch |-> << LogA, LogB >>,
            chunks |-> << Stringify(<< LogA, LogB >>) >>],
           \* the text {}: JSON without logs
           [wellFormed |-> FALSE, json |-> TRUE, batch |-> <<>>,
            chunks |-> << << Punct("{}") >> >>],
           \* the text of a batch without its closing token
           [wellFormed |-> FALSE, json |-> FALSE, batch |-> << LogA, LogB >>,
            chunks |-> << SubSeq(Stringify(<< LogA, LogB >>), 1, 4) >>],
           \* the text: not json
           [wellFormed |-> FALSE, json |-> FALSE, batch |-> <<>>,
            chunks |-> << << Punct("not json") >> >>] }

Methods == {"POST", "GET"}

SrvCur(name) == [ loggerCache |-> loggerCache,
                  srvTrace |-> << [op |-> "task", name |-> name] >>,
                  threw |-> FALSE ]

\* (mutant) a chunk is put in front of the body read so far
OnData_Prepend(i) ==
    /\ requests[i].state = "reading"
    /\ requests[i].rest # <<>>
    /\ requests' = [requests EXCEPT ![i].body = Head(requests[i].rest) \o @,
                                    ![i].rest = Tail(@)]
    /\ srvTrace' = SrvDid(SrvCur("data"), [op |-> "append", req |-> i]).srvTrace
    /\ UNCHANGED <<loggerCache, configVars, buildVars, clientVars>>

\* (mutant) the middleware takes every method for a POST
Middleware_AnyMethod(method, payload) ==
    /\ Len(requests) < MaxRequests
    /\ requests' = Append(requests,
           [method |-> method, state |-> "reading", body |-> <<>>,
            rest |-> payload.chunks, payload |-> payload, responses |-> <<>>,
                   forwarded |-> <<>>, created |-> <<>>, order |-> 0])
    /\ srvTrace' = SrvDid(SrvCur("middleware"), [op |-> "listen"]).srvTrace
    /\ UNCHANGED <<loggerCache, configVars, buildVars, clientVars>>

\* The connect middleware is called with a new request.
Middleware(method, payload) ==
    /\ Len(requests) < MaxRequests
    /\ IF method # "POST"
       THEN /\ requests' = Append(requests,
                  [method |-> method, state |-> "passed", body |-> <<>>,
                   rest |-> payload.chunks, payload |-> payload, responses |-> <<>>,
                   forwarded |-> <<>>, created |-> <<>>, order |-> 0])
            /\ srvTrace' = SrvDid(SrvCur("middleware"), [op |-> "next"]).srvTrace
       ELSE /\ requests' = Append(requests,
                  [method |-> method, state |-> "reading", body |-> <<>>,
                   rest |-> payload.chunks, payload |-> payload, responses |-> <<>>,
                   forwarded |-> <<>>, created |-> <<>>, order |-> 0])
            /\ srvTrace' = SrvDid(SrvCur("middleware"), [op |-> "listen"]).srvTrace
    /\ UNCHANGED <<loggerCache, configVars, buildVars, clientVars>>

\* (mutant) the chunks of all requests go into one body
OnData_SharedBody(i) ==
    /\ requests[i].state = "reading"
    /\ requests[i].rest # <<>>
    /\ requests' = [n \in 1..Len(requests) |->
           IF n = i
           THEN [requests[n] EXCEPT !.body = @ \o Head(requests[i].rest),
                                    !.rest = Tail(@)]
           ELSE IF requests[n].state = "reading"
           THEN [requests[n] EXCEPT !.body = @ \o Head(requests[i].rest)]
           ELSE requests[n]]
    /\ srvTrace' = SrvDid(SrvCur("data"), [op |-> "append", req |-> i]).srvTrace
    /\ UNCHANGED <<loggerCache, configVars, buildVars, clientVars>>

\* request.on("data", ...): the next chunk of request i arrives.
OnData(i) ==
    /\ requests[i].state = "reading"
    /\ requests[i].rest # <<>>
    /\ requests' = [requests EXCEPT ![i].body = @ \o Head(requests[i].rest),
                                    ![i].rest = Tail(@)]
    /\ srvTrace' = SrvDid(SrvCur("data"), [op |-> "append", req |-> i]).srvTrace
    /\ UNCHANGED <<loggerCache, configVars, buildVars, clientVars>>

\* request.on("end", ...): the body of request i is complete.
OnEnd(i) ==
    /\ requests[i].state = "reading"
    /\ requests[i].rest = <<>>
    /\ LET v == onEnd(requests[i].body,
                      SrvDid(SrvCur("end"), [op |-> "end", req |-> i,
                                             sinks |-> loggerCache]))
           answers == SelectSeq(v.srvTrace, LAMBDA e : e.op = "respond")
       IN /\ loggerCache' = v.loggerCache
          /\ srvTrace' = v.srvTrace
          /\ requests' = [requests EXCEPT
                 ![i].state = "answered",
                 ![i].responses = @ \o answers,
                 ![i].forwarded = SelectSeq(v.srvTrace, LAMBDA e : e.op = "logger"),
                 ![i].created = SelectSeq(v.srvTrace, LAMBDA e : e.op = "createLogger"),
                 \* its place among the requests answered so far
                 ![i].order = 1 + Cardinality({ n \in 1..Len(requests) :
                                                  requests[n].state = "answered" })]
    /\ UNCHANGED <<configVars, buildVars, clientVars>>

ServerNext ==
    \/ \E method \in Methods, payload \in Payloads : Middleware(method, payload)
    \/ \E i \in 1..Len(requests) : OnData(i)
    \/ \E i \in 1..Len(requests) : OnEnd(i)

ServerSpecInit ==
    /\ levels = AllLevels
    /\ SILENT_ON_ERROR = TRUE
    /\ hasFetch = TRUE
    /\ hasWindow = TRUE
    /\ Defaults
    /\ ClientInit
    /\ ServerInit

SpecServer == ServerSpecInit /\ [][ServerNext]_vars

----------------------------------------------------------------------------
(* Client and server together: the fetch requests of the client module are *)
(* the requests the middleware is called with.                             *)

\* the server's request made of fetch call r, if it has arrived
Arrived(r) == { i \in 1..Len(requests) : requests[i].payload.req = r.req }

\* The POST request of fetch call r reaches the middleware; its body will
\* arrive in two chunks.
Arrives(r) ==
    /\ r \in inflight
    /\ Arrived(r) = {}
    /\ Middleware("POST", [wellFormed |-> TRUE, json |-> TRUE, batch |-> r.logs,
                           chunks |-> Chunks(Stringify(r.logs), 2), req |-> r.req])

\* The response to fetch call r reaches the client: the promise is
\* fulfilled.
FetchAnswered(r) ==
    /\ r \in inflight
    /\ \E i \in Arrived(r) :
          /\ requests[i].state = "answered"
          /\ FetchSettles(r, IF requests[i].responses[1].status = 200
                              THEN "ok" ELSE "non2xx")

E2EInit ==
    /\ levels = AllLevels
    /\ SILENT_ON_ERROR = TRUE
    /\ hasFetch = TRUE
    /\ hasWindow = TRUE
    /\ Defaults
    /\ ClientInit
    /\ ServerInit

E2ENext ==
    \/ \E c \in Calls : ConsoleCall(c[1], c[2])
    \/ \E t \in timers : TimerFires(t)
    \/ ExportedFlush
    \/ \E r \in inflight : Arrives(r)
    \/ \E i \in 1..Len(requests) : OnData(i)
    \/ \E i \in 1..Len(requests) : OnEnd(i)
    \/ \E r \in inflight : FetchAnswered(r)

SpecE2E == E2EInit /\ [][E2ENext]_vars

----------------------------------------------------------------------------
(* One console call with arguments of every kind *)

\* most arguments in one call
MaxArgs == 2

ErrorText == << "Error: boom" >>

ArgPool ==
    { JsString("hello"), JsUndefined, JsNumber("42"), JsBoolean("true"), JsNull,
      \* { a: 1 } and [1, 2]
      JsObject("{\"a\":1}", "[object Object]"), JsObject("[1,2]", "1,2"),
      \* an object that holds itself
      JsObject("throws", "[object Object]"),
      \* the same made with Object.create(null)
      JsObject("throws", "throws"),
      \* new Error("boom") where the stack starts with the error's text
      JsErrorLike(ErrorText, << "Error: boom", "\n", "    ", "at f (a.js:1:1)" >>),
      \* ... where the stack is frames only
      JsErrorLike(ErrorText, << "f@a.js:1:1" >>),
      \* ... without a stack, and with the error's text for a stack
      JsErrorLike(ErrorText, <<>>), JsErrorLike(ErrorText, ErrorText),
      \* ... with a stack that a handler put the error's text in front of
      JsErrorLike(ErrorText, << "Error: boom", "\n", "Error: boom", "\n",
                                "    ", "at f (a.js:1:1)" >>) }

ArgLists == UNION { [1..n -> ArgPool] : n \in 1..MaxArgs }

\* The first console call of the page.
FormatCall(args) ==
    /\ tasks = 0
    /\ ConsoleCall("log", args)

FormatNext ==
    \/ \E args \in ArgLists : FormatCall(args)
    \/ \E t \in timers : TimerFires(t)

SpecFormat == E2EInit /\ [][FormatNext]_vars

----------------------------------------------------------------------------
(* console.error with an Error, from the page to the terminal *)

\* new Error("boom"): its string form is "Error: boom"; the stack as V8
\* writes it (the string form, then the frames), as SpiderMonkey writes
\* it (frames only), and an error without a stack
ErrorPool ==
    { JsErrorLike(ErrorText, << "Error: boom", "\n", "    ", "at f (a.js:1:1)", "\n",
                                "    ", "at g (a.js:2:2)" >>),
      JsErrorLike(ErrorText, << "f@a.js:1:1", "\n", "g@a.js:2:2" >>),
      JsErrorLike(ErrorText, <<>>) }

Contexts == {"checkout", "app"}

\* setModuleContext(context), called by the code the plugin injects
SetModuleContext(context) ==
    /\ currentModuleContext # context
    /\ Commit([Start("setModuleContext") EXCEPT !.currentModuleContext = context])
    /\ UNCHANGED <<configVars, buildVars, serverVars>>

\* The application's one call of console.error(err).
ErrorCall(err) ==
    /\ tasks = 0
    /\ ConsoleCall("error", << err >>)

ErrorE2ENext ==
    \/ \E context \in Contexts : SetModuleContext(context)
    \/ \E err \in ErrorPool : ErrorCall(err)
    \/ \E t \in timers : TimerFires(t)
    \/ \E r \in inflight : Arrives(r)
    \/ \E i \in 1..Len(requests) : OnData(i)
    \/ \E i \in 1..Len(requests) : OnEnd(i)
    \/ \E r \in inflight : FetchAnswered(r)

SpecErrorE2E == E2EInit /\ [][ErrorE2ENext]_vars

----------------------------------------------------------------------------
(* Properties of the client (checked under Spec) *)

\* positions in the last client task's trace where op was done
Ops(op) == { i \in 1..Len(trace) : trace[i].op = op }

ReportText == JsString("[Console Forward] Failed to send logs:")

\* the last task wrote the send-failure warning to the local console
Warned ==
    \E k \in 1..Len(trace) :
        /\ trace[k].op \in {"original", "native"}
        /\ trace[k].level = "warn"
        /\ trace[k].args[1] = ReportText

\* a push made by a console call of the application, not by the failure report
AppPushes == { k \in Ops("push") : ~(k > 3 /\ trace[k - 3].op = "report") }

\* C1: no call of a wrapped console method, whatever its arguments, lets an
\* exception out into the calling application code.
C1_WrapperNeverThrows == Ops("throw") = {}

\* C2: every call of a wrapped console method calls the original method
\* exactly once with the same arguments, and before the entry is built and
\* enqueued.
C2_OriginalCalledFirst ==
    /\ \A i \in Ops("console") :
          /\ i < Len(trace)
          /\ trace[i + 1] = [op |-> "original", level |-> trace[i].level,
                             args |-> trace[i].args]
    /\ \A j \in Ops("original") : j > 1 /\ trace[j - 1].op = "console"
    /\ \A k \in Ops("push") \cup Ops("throw") : k > 1 /\ trace[k - 1].op = "original"

\* a wrapped call whose capture failed after the original method had run,
\* and one whose entry was enqueued
C2_Witness ==
    \/ \E k \in Ops("throw") : trace[k - 1].op = "original"
    \/ \E k \in Ops("push") : trace[k - 1].op = "original" /\ Ops("fetch") # {}

\* The threshold part of C3: a task that starts on an empty buffer and
\* enqueues fewer than MAX_BUFFER_SIZE entries sends nothing and leaves the
\* delay timer pending; the MAX_BUFFER_SIZE-th entry is followed at once by
\* the flush of exactly the entries enqueued so far, and after just
\* MAX_BUFFER_SIZE entries no timer is pending.
C3_Threshold ==
    (trace # <<>> /\ trace[1].name \in {"console", "rapid", "settle"}
                  /\ trace[1].buffered = 0)
    => LET pushes == SelectSeq(trace, LAMBDA e : e.op = "push")
           sends == SelectSeq(trace, LAMBDA e : e.op = "sendLogs")
       IN /\ (Len(pushes) < MAX_BUFFER_SIZE) =>
                /\ sends = <<>>
                /\ Len(logBuffer) = Len(pushes)
                /\ Len(pushes) >= 1 => (flushTimeout # 0 /\ timers = {flushTimeout})
          /\ (Len(pushes) >= MAX_BUFFER_SIZE) =>
                /\ Len(sends) = 1
                /\ Len(sends[1].logs) = MAX_BUFFER_SIZE
                /\ \A k \in 1..MAX_BUFFER_SIZE :
                      sends[1].logs[k] = pushes[k].stamp
                /\ \E j \in Ops("sendLogs") :
                      /\ trace[j - 1].op = "flushLogs"
                      /\ trace[j - 2] = pushes[MAX_BUFFER_SIZE]
                /\ Cardinality(AppPushes) = MAX_BUFFER_SIZE =>
                      (flushTimeout = 0 /\ timers = {})

\* a batch below the threshold is flushed only by a task named in names
FlushBelowThresholdOnlyBy(names) ==
    \A j \in Ops("sendLogs") :
        Len(trace[j].logs) < MAX_BUFFER_SIZE => trace[1].name \in names

\* C3 as stated: from an empty buffer 50 entries are flushed at once as one
\* batch with no timer left pending; 49 leave a timer pending, and nothing
\* is flushed until the delay timer or the recurring interval fires.
C3_ThresholdAsStated ==
    C3_Threshold /\ FlushBelowThresholdOnlyBy({"timeout", "interval"})

\* C3 amended: ... until the delay timer or the recurring interval fires,
\* the beforeunload listener runs, or flushLogs is called through the
\* module's default export.
C3_ThresholdAmended ==
    C3_Threshold
    /\ FlushBelowThresholdOnlyBy({"timeout", "interval", "beforeunload", "export"})

\* a burst of exactly MAX_BUFFER_SIZE calls on an empty buffer was flushed
C3_Witness ==
    /\ trace # <<>>
    /\ trace[1].name = "rapid"
    /\ trace[1].buffered = 0
    /\ Cardinality(Ops("push")) = MAX_BUFFER_SIZE
    /\ Ops("sendLogs") # {}
    /\ flushTimeout = 0

\* C4: at most one delay timer is pending at any time; addToBuffer sets a
\* timer only when none is pending and the threshold was not reached.
C4_AtMostOneTimer ==
    /\ Cardinality(timers) <= 1
    /\ timers \subseteq {flushTimeout}
    /\ \A j \in Ops("setTimeout") :
          /\ trace[j].pending = {}
          /\ trace[j - 1].op = "push"

\* an entry was enqueued while the timer of an earlier entry was pending
C4_Witness ==
    /\ timers # {}
    /\ Len(logBuffer) >= 2
    /\ Ops("push") # {}
    /\ Ops("setTimeout") = {}

\* C5: every flush hands the sender exactly the buffer's entries, in order,
\* as one batch, and leaves the buffer empty and the timer reference
\* cleared.
C5_FlushHandsOverBuffer ==
    /\ \A j \in Ops("flushLogs") :
          /\ trace[j + 1].op = "sendLogs"
          /\ trace[j + 1].logs = trace[j].buffered
    /\ Cardinality(Ops("sendLogs")) = Cardinality(Ops("flushLogs"))
    /\ \A r \in Ops("flushReturn") :
          /\ trace[r].buffered = <<>>
          /\ trace[r].flushTimeout = 0

\* C6: a batch goes into at most one request; after a failed send its
\* entries are never in the buffer again nor in a later batch.
C6_NoRetry ==
    /\ resentStamps = {}
    /\ Stamps(logBuffer) \cap sentStamps = {}
    /\ \A r \in inflight : Stamps(r.logs) \cap failedStamps = {}
    /\ \A r1, r2 \in inflight : r1 # r2 => Stamps(r1.logs) \cap Stamps(r2.logs) = {}
    /\ Cardinality(Ops("fetch")) <= Cardinality(Ops("sendLogs"))

\* after a failed send, newer entries are buffered and a newer batch is in
\* flight
C6_Witness ==
    /\ failedStamps # {}
    /\ logBuffer # <<>>
    /\ inflight # {}

\* what C7 says of one failed delivery, for the kinds of failure in kinds
FailureHandled(kinds) ==
    /\ \A i \in Ops("settled") :
          /\ Range(trace[i].logs) \cap Stamps(logBuffer) = {}
          /\ \A r \in inflight : Range(trace[i].logs) \cap Stamps(r.logs) = {}
          /\ trace[i].outcome \in kinds =>
                /\ i < Len(trace)
                /\ trace[i + 1] = [op |-> "catch", logs |-> trace[i].logs]
                /\ Warned <=> ~SILENT_ON_ERROR
    /\ \A j \in Ops("sendLogs") :
          ~hasFetch =>
                /\ trace[j + 1] = [op |-> "catch", logs |-> trace[j].logs]
                /\ Warned <=> ~SILENT_ON_ERROR

C8_ReportNotForwarded ==
    \A i \in Ops("report") : \A k \in Ops("push") : k < i

----------------------------------------------------------------------------
(* Properties of bursts (checked under SpecBurst) *)

\* stamps of the batches the handler that ran last gave to sendLogs
SentInTrace == UNION { Range(trace[i].logs) : i \in Ops("sendLogs") }

\* C17: in a burst of any length nothing is lost or duplicated: every
\* entry is pushed as soon as it is made, is in the buffer until a flush
\* takes it, is then in one batch given to sendLogs and no longer in the
\* buffer, and is never in a second batch.
C17_NothingLostOrDuplicated ==
    /\ Stamps(logBuffer) \cup sentStamps = 1..clock
    /\ Stamps(logBuffer) \cap sentStamps = {}
    /\ Cardinality(Stamps(logBuffer)) = Len(logBuffer)
    /\ resentStamps = {}
    /\ \A i, j \in Ops("sendLogs") :
          i # j => Range(trace[i].logs) \cap Range(trace[j].logs) = {}
    /\ \A i \in Ops("sendLogs") : Cardinality(Range(trace[i].logs)) = Len(trace[i].logs)
    /\ \A k \in Ops("push") :
          /\ trace[k - 1].op = "original"
          /\ trace[k].stamp \in SentInTrace \cup Stamps(logBuffer)
          /\ \A n \in Ops("push") : n # k => trace[n].stamp # trace[k].stamp

\* a burst of twice the threshold ran: two full batches were sent in it and
\* nothing is left in the buffer
C17_Witness ==
    /\ trace # <<>>
    /\ trace[1].name = "rapid"
    /\ Cardinality(Ops("push")) = 2 * MAX_BUFFER_SIZE
    /\ Cardinality(Ops("sendLogs")) = 2
    /\ Cardinality(SentInTrace) = 2 * MAX_BUFFER_SIZE
    /\ logBuffer = <<>>

----------------------------------------------------------------------------
(* Properties of the server (checked under SpecServer) *)

SrvOps(op) == { i \in 1..Len(srvTrace) : srvTrace[i].op = op }

SinkName(log) == IF log.module # "" THEN log.module ELSE "unknown"

SuccessResponse == [op |-> "respond", status |-> 200, body |-> "{\"success\":true}"]

\* C9: a request whose method is not POST goes to the next handler: its
\* body is not read, nothing is forwarded, no logger is created and no
\* response is written.
C9_NonPostPassedOn ==
    /\ \A i \in 1..Len(requests) :
          requests[i].method # "POST" =>
             /\ requests[i].state = "passed"
             /\ requests[i].body = <<>>
             /\ requests[i].rest = requests[i].payload.chunks
             /\ requests[i].responses = <<>>
    /\ (srvTrace # <<>> /\ srvTrace[1].name = "middleware"
                        /\ requests[Len(requests)].method # "POST")
          => srvTrace = << [op |-> "task", name |-> "middleware"], [op |-> "next"] >>
    /\ \A i \in SrvOps("end") : requests[srvTrace[i].req].method = "POST"
    /\ loggerCache \subseteq
          UNION { { SinkName(requests[i].payload.batch[k])
                      : k \in { j \in 1..Len(requests[i].payload.batch) :
                                  requests[i].payload.batch[j] # JsNull } }
                  : i \in { n \in 1..Len(requests) :
                              /\ requests[n].method = "POST"
                              /\ requests[n].state = "answered" } }

\* a GET was passed on after a POST had been forwarded
C9_Witness ==
    /\ loggerCache # {}
    /\ SrvOps("next") # {}
    /\ \E i \in 1..Len(requests) :
          requests[i].method = "GET" /\ requests[i].payload.wellFormed

\* C10: for a POST whose body is a well-formed batch, every log goes to the
\* logger of its module once, in batch order, and the 200 response with
\* {"success":true} is written after the last of them.
C10_BatchForwardedInOrder ==
    (srvTrace # <<>> /\ srvTrace[1].name = "end")
    => LET i == srvTrace[2].req
           batch == requests[i].payload.batch
           forwarded == SelectSeq(srvTrace, LAMBDA e : e.op = "logger")
       IN requests[i].payload.wellFormed =>
             /\ Len(forwarded) = Len(batch)
             /\ \A k \in 1..Len(batch) :
                   /\ forwarded[k].stamp = batch[k].timestamp
                   /\ forwarded[k].name = SinkName(batch[k])
                   /\ forwarded[k].name \in loggerCache
             /\ srvTrace[Len(srvTrace)] = SuccessResponse
             /\ SrvOps("respond") = {Len(srvTrace)}
             /\ requests[i].responses = << SuccessResponse >>

\* a batch of three logs that arrived in two chunks was forwarded
C10_Witness ==
    /\ srvTrace # <<>>
    /\ srvTrace[1].name = "end"
    /\ Cardinality(SrvOps("logger")) = 3
    /\ Len(requests[srvTrace[2].req].payload.chunks) = 2
    /\ srvTrace[Len(srvTrace)] = SuccessResponse

InvalidJsonResponse ==
    [op |-> "respond", status |-> 400, body |-> "{\"error\":\"Invalid JSON\"}"]

\* the request whose end handler ran last
Ended == srvTrace[2].req
EndRan == srvTrace # <<>> /\ srvTrace[1].name = "end"

\* the end handler answered 400 and touched no logger
RejectedWhole ==
    /\ SrvOps("logger") = {}
    /\ SrvOps("createLogger") = {}
    /\ loggerCache = srvTrace[2].sinks
    /\ SrvOps("respond") = {Len(srvTrace)}
    /\ srvTrace[Len(srvTrace)] = InvalidJsonResponse
    /\ requests[Ended].responses = << InvalidJsonResponse >>
    /\ requests[Ended].forwarded = <<>>

\* C11: a POST whose body is no JSON text is answered 400 with
\* {"error":"Invalid JSON"}; no log is forwarded and the logger cache is
\* as it was (no logger created, none used).
C11_InvalidJsonRejected ==
    (EndRan /\ ~requests[Ended].payload.json) => RejectedWhole

\* a body that is no JSON was rejected after an earlier batch had created
\* loggers
C11_Witness ==
    /\ EndRan
    /\ ~requests[Ended].payload.json
    /\ requests[Ended].payload.batch # <<>>
    /\ srvTrace[Len(srvTrace)] = InvalidJsonResponse
    /\ loggerCache # {}

\* C12: a POST whose body is JSON of another shape than a batch (no logs,
\* or an entry that is null or has a string for stacks) is answered 400,
\* and no log of it is forwarded and no logger created for it, the logs
\* before the bad entry included.
C12_MisshapenRejectedWhole ==
    (EndRan /\ requests[Ended].payload.json /\ ~requests[Ended].payload.wellFormed)
    => RejectedWhole

\* module names of the logs a request's end handler gave to a logger
ForwardedNames(i) ==
    { requests[i].forwarded[k].name : k \in 1..Len(requests[i].forwarded) }

\* all createLogger calls so far, as <<request, position>>
Creations ==
    UNION { { <<i, k>> : k \in 1..Len(requests[i].created) } : i \in 1..Len(requests) }

\* C13: the logger cache holds one logger for each module name that
\* occurred in a forwarded log and no other: created once, at the first
\* log of that module, and neither removed nor replaced afterwards.
C13_OneSinkPerForwardedModule ==
    /\ loggerCache = UNION { ForwardedNames(i) : i \in 1..Len(requests) }
    /\ \A c, d \in Creations :
          requests[c[1]].created[c[2]].prefix = requests[d[1]].created[d[2]].prefix
             => c = d
    /\ Cardinality(Creations) = Cardinality(loggerCache)

\* the log of request i a logger event came from
LogOf(i, e) ==
    LET batch == requests[i].payload.batch
    IN batch[CHOOSE k \in 1..Len(batch) :
                 batch[k] # JsNull /\ batch[k].timestamp = e.stamp]

\* C14: each log is dispatched by its level: error to the logger's error
\* method, with an error object made of the stacks joined by newlines
\* exactly when the log has a stack; warn to warn; info, debug, log and
\* every other level to info.
C14_DispatchByLevel ==
    \A i \in 1..Len(requests) :
       \A j \in 1..Len(requests[i].forwarded) :
          LET e == requests[i].forwarded[j]
              log == LogOf(i, e)
          IN /\ e.level = log.level
             /\ e.method = (IF e.level = "error" THEN "error"
                            ELSE IF e.level = "warn" THEN "warn"
                            ELSE "info")
             /\ e.withError = (e.level = "error" /\ log.stacks # <<>>)
             /\ e.withError =>
                   e.error = Join([k \in 1..Len(log.stacks) |-> Str(log.stacks[k])], "\n")

\* errors with and without a stack, a debug log and a log of an unknown
\* level were all dispatched
C14_Witness ==
    \E a, b, c, d \in 1..Len(requests) :
       /\ \E k \in 1..Len(requests[a].forwarded) :
             /\ requests[a].forwarded[k].level = "error"
             /\ requests[a].forwarded[k].withError
       /\ \E k \in 1..Len(requests[b].forwarded) :
             /\ requests[b].forwarded[k].level = "error"
             /\ ~requests[b].forwarded[k].withError
       /\ \E k \in 1..Len(requests[c].forwarded) :
             /\ requests[c].forwarded[k].level = "debug"
             /\ requests[c].forwarded[k].method = "info"
       /\ \E k \in 1..Len(requests[d].forwarded) :
             /\ requests[d].forwarded[k].level = "verbose"
             /\ requests[d].forwarded[k].method = "info"

----------------------------------------------------------------------------
(* Properties of client and server together (checked under SpecE2E) *)

RECURSIVE Flatten(_)
Flatten(chunks) == IF chunks = <<>> THEN <<>> ELSE Head(chunks) \o Flatten(Tail(chunks))

Ascending(stamps) == \A k \in 1..(Len(stamps) - 1) : stamps[k] < stamps[k + 1]

\* C15: every batch the server receives is the snapshot of one flush: the
\* flush gives the whole buffer to one fetch call, the body the server
\* reads is the text of that batch, its logs are in the order they were
\* captured, and no log is in two requests.
C15_BatchIsOneFlush ==
    /\ \A j \in Ops("flushLogs") :
          /\ trace[j + 1].op = "sendLogs" /\ trace[j + 1].logs = trace[j].buffered
          /\ trace[j + 2].op = "fetch" /\ trace[j + 2].logs = trace[j].buffered
    /\ Cardinality(Ops("fetch")) = Cardinality(Ops("flushLogs"))
    /\ \A r \in inflight :
          /\ Ascending(StampSeq(r.logs))
          /\ \A i \in Arrived(r) : requests[i].payload.batch = r.logs
          /\ Cardinality(Arrived(r)) <= 1
    /\ \A i \in 1..Len(requests) :
          LET batch == requests[i].payload.batch
          IN /\ batch # <<>>
             /\ Ascending(StampSeq(batch))
             /\ requests[i].body \o Flatten(requests[i].rest) = Stringify(batch)
             /\ requests[i].state = "answered" =>
                   /\ JSONparse(requests[i].body).logs = batch
                   /\ [k \in 1..Len(requests[i].forwarded) |->
                          requests[i].forwarded[k].stamp] = StampSeq(batch)
             /\ \A n \in 1..Len(requests) :
                   n # i => Stamps(batch) \cap Stamps(requests[n].payload.batch) = {}

\* two batches of the same page were received, the later one first
C15_Witness ==
    /\ Len(requests) = 2
    /\ requests[1].state = "answered"
    /\ requests[2].state = "answered"
    /\ requests[1].payload.req > requests[2].payload.req

\* the terminal output so far: the logger calls of the answered requests,
\* in the order the requests were answered
RECURSIVE OutputFrom(_)
OutputFrom(n) ==
    IF \E i \in 1..Len(requests) : requests[i].order = n
    THEN LET i == CHOOSE i \in 1..Len(requests) : requests[i].order = n
         IN requests[i].forwarded \o OutputFrom(n + 1)
    ELSE <<>>
Output == OutputFrom(1)

\* nothing is buffered or on its way
Quiescent ==
    /\ logBuffer = <<>>
    /\ inflight = {}
    /\ \A i \in 1..Len(requests) : requests[i].state = "answered"

\* C16: with every send succeeding, each console call at a patched level
\* appears in the terminal output once, in the order the calls were made,
\* with its level and message, also when the calls are in several batches
\* that are in flight together.
C16_EachCallOnceInOrder ==
    /\ Ascending([k \in 1..Len(Output) |-> Output[k].stamp])
    /\ Quiescent => Len(Output) = tasks
    /\ \A k \in 1..Len(Output) :
          \E c \in { d \in Calls : d[2][1] # JsNull } :
             /\ Output[k].level = c[1]
             /\ Output[k].message =
                   "[" \o c[1] \o "] " \o c[2][1].v \o " (" \o PageUrl \o ")"

----------------------------------------------------------------------------
(* Properties of createLogEntry (checked under SpecFormat) *)

\* the console call that ran last built an entry
Built ==
    /\ trace # <<>>
    /\ trace[1].name = "console"
    /\ Ops("push") # {}
CallArgs == trace[2].args
Entry == logBuffer[Len(logBuffer)]

\* the arguments of the call that go to extra, and the place of argument i
\* among them
ExtraArgs == { i \in 1..Len(CallArgs) : CallArgs[i].t = "object" }
ExtraRank(i) == Cardinality({ j \in ExtraArgs : j <= i })

\* what stands for argument i in the message
MessagePart(i) ==
    LET arg == CallArgs[i]
    IN CASE arg.t = "string" -> arg.v
         [] arg.t = "undefined" -> "undefined"
         [] arg.t = "object" -> "[extra#" \o ToString(ExtraRank(i)) \o "]"
         [] arg.t = "errorlike" -> Str(arg.str)
         [] OTHER -> arg.str

\* C18: in the message of the entry a call builds, every object argument
\* (not a string, not error-like, not null) stands as [extra#n], n its
\* place from 1 among the call's extra arguments; extra has one value per
\* such argument, in argument order, and the n-th is the round-tripped
\* value when the round trip worked.
C18_ExtraPlaceholders ==
    Built =>
       /\ Entry.message = Join([i \in 1..Len(CallArgs) |-> MessagePart(i)], " ")
       /\ Len(Entry.extra) = Cardinality(ExtraArgs)
       /\ \A i \in ExtraArgs :
             CallArgs[i].json # "throws" => Entry.extra[ExtraRank(i)] = CallArgs[i].json

\* a call with two objects that both round-trip built an entry
C18_Witness ==
    /\ Built
    /\ Len(CallArgs) = 2
    /\ ExtraArgs = {1, 2}
    /\ CallArgs[1] # CallArgs[2]
    /\ \A i \in ExtraArgs : CallArgs[i].json # "throws"
    /\ Entry.extra = << CallArgs[1].json, CallArgs[2].json >>

\* the console call that ran last had an object argument whose round trip
\* throws
RoundTripFailed ==
    /\ trace # <<>>
    /\ trace[1].name = "console"
    /\ \E i \in ExtraArgs : CallArgs[i].json = "throws"

\* C19: when the round trip of an object argument throws, the call still
\* returns normally, the message has the placeholder of the argument and
\* the extra value is the object's string form.
C19_RoundTripFailureFallsBack ==
    RoundTripFailed =>
       /\ Ops("throw") = {}
       /\ Built
       /\ Entry.message = Join([i \in 1..Len(CallArgs) |-> MessagePart(i)], " ")
       /\ \A i \in ExtraArgs :
             CallArgs[i].json = "throws" => Entry.extra[ExtraRank(i)] = CallArgs[i].str

\* the error-like arguments of the call
ErrorArgs == { i \in 1..Len(CallArgs) : CallArgs[i].t = "errorlike" }

\* the stack of an error-like argument without one leading copy of the
\* error's string form and the whitespace after it
StackRest(arg) ==
    IF StartsWith(arg.stack, arg.str)
    THEN TrimStart(Slice(arg.stack, Len(arg.str)))
    ELSE arg.stack

\* C20 as stated: every error-like argument has an entry in stacks, and
\* the entry does not begin with the error's string form.
C20_StackForEveryError ==
    Built =>
       /\ ErrorArgs # {} => Entry.stacks # <<>>
       /\ Len(Entry.stacks) = Cardinality(ErrorArgs)
       /\ \A k \in 1..Len(Entry.stacks) :
             \A i \in ErrorArgs : ~StartsWith(Entry.stacks[k], CallArgs[i].str)

\* C20 amended: an error-like argument whose stack holds more than one
\* leading copy of the error's string form has an entry in stacks: its
\* stack without that copy (when the stack begins with it) and without the
\* whitespace that follows.  An argument whose stack is absent, empty or
\* just the string form has no entry, so stacks can be empty.  The
\* entries are in argument order.
C20_StackRestForErrors ==
    Built =>
       LET rests == [i \in 1..Len(CallArgs) |->
                        IF i \in ErrorArgs THEN StackRest(CallArgs[i]) ELSE <<>>]
       IN Entry.stacks = SelectSeq(rests, LAMBDA r : r # <<>>)

\* a call with an error whose stack begins with its string form and an
\* error without a stack built an entry with one stack
C20_Witness ==
    /\ Built
    /\ ErrorArgs = {1, 2}
    /\ StartsWith(CallArgs[1].stack, CallArgs[1].str)
    /\ CallArgs[2].stack = <<>>
    /\ Entry.stacks = << << "at f (a.js:1:1)" >> >>

----------------------------------------------------------------------------
(* Properties of console.error from page to terminal (SpecErrorE2E) *)

\* the lines of a stack, each behind the margin of four spaces
MarginLines(stack) ==
    LET lines == SplitLines(stack, "")
    IN Join([k \in 1..Len(lines) |-> "    " \o lines[k]], "\n")

\* what the terminal shows for an entry whose first line is head
Shown(head, entry) ==
    head \o " (" \o entry.url \o ")"
         \o (IF entry.stacks # <<>> THEN "\n" \o MarginLines(entry.stacks[1]) ELSE "")

\* the forwarded logs of all answered requests, as <<request, position>>
Forwards ==
    UNION { { <<i, k>> : k \in 1..Len(requests[i].forwarded) } : i \in 1..Len(requests) }

\* C21 as stated: console.error(new Error("boom")) under module context M
\* comes out of logger [M] as a line that starts with "[error] boom",
\* followed by the indented lines of the stack.
C21_ErrorLineAsStated ==
    \A f \in Forwards :
       LET entry == requests[f[1]].payload.batch[f[2]]
           e == requests[f[1]].forwarded[f[2]]
       IN /\ e.name = entry.module
          /\ e.method = "error"
          /\ entry.stacks # <<>>
          /\ e.message = Shown("[error] boom", entry)

\* C21 amended: the line starts with "[error] " and the error's string
\* form ("Error: boom": name, colon, message); the indented lines of the
\* stack follow when the error has a stack, without the copy of the string
\* form a stack may begin with.
C21_ErrorLineWithStringForm ==
    \A f \in Forwards :
       LET entry == requests[f[1]].payload.batch[f[2]]
           e == requests[f[1]].forwarded[f[2]]
       IN /\ e.name = entry.module
          /\ e.name \in Contexts \cup {"unknown"}
          /\ e.name \in loggerCache
          /\ e.method = "error"
          /\ e.message = Shown("[error] " \o Str(ErrorText), entry)
          /\ \A k \in 1..Len(entry.stacks) :
                ~StartsWith(entry.stacks[k], ErrorText)

\* an error with a V8 stack, logged under context checkout, reached the
\* terminal through the logger of checkout with its two frames (the second
\* keeps the indentation it has in the stack, behind the margin)
C21_Witness ==
    \E f \in Forwards :
       LET e == requests[f[1]].forwarded[f[2]]
       IN /\ e.name = "checkout"
          /\ e.withError
          /\ e.message = "[error] Error: boom (" \o PageUrl \o ")\n"
                             \o "    at f (a.js:1:1)\n        at g (a.js:2:2)"

----------------------------------------------------------------------------
(* The global error handlers of the client module (forwardErrors), and the *)
(* specification SpecHandlers: one error event in each runtime context.    *)

\* an Error instance, as a promise is rejected with or a script throws
JsError(message, stack) == [t |-> "error", message |-> message, stack |-> stack]

\* String(value); "throws" stands for the TypeError of a value that has no
\* toString to inherit
StringOf(value) ==
    CASE value.t = "undefined" -> "undefined"
      [] value.t = "null" -> "null"
      [] value.t = "string" -> value.v
      [] value.t = "error" ->
            IF value.message = "" THEN "Error" ELSE "Error: " \o value.message
      [] OTHER -> value.str

StringThrows(value) == value.t = "object" /\ value.str = "throws"

\* x.f || d: the field of a value, or d when the field is absent or falsy
\* (empty is the falsy value of the field's type)
Field(value, f, empty, d) ==
    IF f \in DOMAIN value /\ value[f] # empty THEN value[f] ELSE d

\* formatErrorDetails(error): error is an Error or an ErrorEvent
formatErrorDetails(error) ==
    LET details == [ message |-> Field(error, "message", "", StringOf(error)),
                     stack |-> Field(error, "stack", <<>>, <<>>),
                     filename |-> Field(error, "filename", "", ""),
                     lineno |-> Field(error, "lineno", 0, 0),
                     colno |-> Field(error, "colno", 0, 0) ]
    IN IF "error" \in DOMAIN error /\ error.error.t \in {"error", "object"}
       THEN [details EXCEPT !.message = Field(error.error, "message", "", @),
                            !.stack = Field(error.error, "stack", <<>>, @)]
       ELSE details

\* the name the handlers give the runtime
RuntimeContext ==
    IF isServiceWorker THEN "service-worker"
    ELSE IF isWorker THEN "worker" ELSE "window"

\* [...].filter(Boolean): the empty string and null are dropped
FilterBoolean(args) ==
    SelectSeq(args, LAMBDA a : a.t # "null" /\ ~(a.t = "string" /\ a.v = ""))

\* the { stack } object the handlers pass to createLogEntry, or null
StackArg(stack) ==
    IF stack # <<>> THEN JsErrorLike(<< "[object Object]" >>, stack) ELSE JsNull

\* the tail shared by the two handlers: the original console.error, the
\* entry, its module, the buffer, and the event's default handling
forwardError(label, details, args, s) ==
    LET s1 == Did(s, [op |-> "original", level |-> "error",
                      args |-> << JsString(label), JsString(details.message) >>])
        made == createLogEntry("error", FilterBoolean(args), s1)
        entry == [made.entry EXCEPT
                     !.module = s1.currentModuleContext \o ":" \o RuntimeContext]
        s2 == addToBuffer(entry, [s1 EXCEPT !.clock = @ + 1])
    IN IF hasWindow
       THEN Did(s2, [op |-> "preventDefault"])
       ELSE s2

\* handleUnhandledRejection(event)
handleUnhandledRejection(event, s) ==
    IF event.reason.t # "error" /\ StringThrows(event.reason)
    THEN \* String(event.reason) throws in the listener
         [Did(s, [op |-> "throw"]) EXCEPT !.threw = TRUE]
    ELSE LET errorDetails ==
                 IF event.reason.t = "error"
                 THEN formatErrorDetails(event.reason)
                 ELSE [message |-> StringOf(event.reason), stack |-> <<>>]
         IN forwardError("[Unhandled Promise Rejection]", errorDetails,
                         << JsString("[Unhandled Promise Rejection]"),
                            JsString(errorDetails.message),
                            StackArg(errorDetails.stack) >>, s)

\* handleUncaughtException(event)
handleUncaughtException(event, s) ==
    LET errorDetails == formatErrorDetails(event)
    IN forwardError("[Uncaught Exception]", errorDetails,
                    << JsString("[Uncaught Exception]"),
                       JsString(errorDetails.message),
                       StackArg(errorDetails.stack),
                       IF errorDetails.filename # ""
                       THEN JsString("at " \o errorDetails.filename \o ":"
                                        \o ToString(errorDetails.lineno) \o ":"
                                        \o ToString(errorDetails.colno))
                       ELSE JsNull >>, s)

\* the module ran and registered its listeners: on window, or on self in a
\* worker
Listening == loaded /\ forwardErrors /\ (hasWindow \/ isWorker \/ isServiceWorker)

V8Stack == << "Error: boom", "\n", "    ", "at f (a.js:1:1)" >>

\* what promises are rejected with
Reasons == { JsString("network down"), JsString(""), JsNumber("404"),
             JsUndefined, JsNull,
             JsObject("{\"code\":7}", "[object Object]"),
             JsObject("{}", "throws"),
             JsError("boom", V8Stack), JsError("boom", <<>>) }

\* the error events of scripts: a throw in a same-origin script, and the
\* "Script error." of a cross-origin one
ErrorEvents ==
    { [ t |-> "event", str |-> "[object ErrorEvent]",
        message |-> "Uncaught Error: boom", filename |-> "http://localhost:5173/app.js",
        lineno |-> 10, colno |-> 5, error |-> JsError("boom", V8Stack) ],
      [ t |-> "event", str |-> "[object ErrorEvent]",
        message |-> "Uncaught ReferenceError: x is not defined",
        filename |-> "http://localhost:5173/app.js",
        lineno |-> 3, colno |-> 1, error |-> JsError("x is not defined", <<>>) ],
      [ t |-> "event", str |-> "[object ErrorEvent]",
        message |-> "Script error.", filename |-> "",
        lineno |-> 0, colno |-> 0, error |-> JsNull ] }

\* The runtime reports a rejection nobody handled.
UnhandledRejection(reason) ==
    /\ tasks = 0
    /\ LET s0 == Did(AppTask("unhandledrejection"),
                     [op |-> "event", reason |-> reason])
           s == IF Listening
                THEN handleUnhandledRejection([reason |-> reason], s0)
                ELSE s0
       IN /\ Within(s)
          /\ Commit(s)
    /\ UNCHANGED <<configVars, buildVars, serverVars>>

\* The runtime reports an exception nobody caught.
UncaughtException(event) ==
    /\ tasks = 0
    /\ LET s0 == Did(AppTask("error"), [op |-> "event", event |-> event])
           s == IF Listening THEN handleUncaughtException(event, s0) ELSE s0
       IN /\ Within(s)
          /\ Commit(s)
    /\ UNCHANGED <<configVars, buildVars, serverVars>>

\* where the module runs: a page, a worker, a service worker, or a context
\* with neither window nor worker scope
Runtimes == { <<TRUE, FALSE, FALSE>>, <<FALSE, TRUE, FALSE>>,
              <<FALSE, TRUE, TRUE>>, <<FALSE, FALSE, FALSE>> }

HandlersInit ==
    /\ levels = AllLevels
    /\ SILENT_ON_ERROR = TRUE
    /\ hasFetch = TRUE
    /\ \E rt \in Runtimes : /\ hasWindow = rt[1]
                           /\ isWorker = rt[2]
                           /\ isServiceWorker = rt[3]
    /\ forwardErrors \in BOOLEAN
    /\ enabled = TRUE
    /\ injectPatterns = << "**/*.html" >>
    /\ excludePatterns = << "**/node_modules/**" >>
    /\ files = <<>>
    /\ ClientInit
    /\ ServerInit

HandlersNext ==
    \/ \E c \in Contexts : SetModuleContext(c)
    \/ \E reason \in Reasons : UnhandledRejection(reason)
    \/ \E event \in ErrorEvents : UncaughtException(event)
    \/ \E t \in timers : TimerFires(t)

SpecHandlers == HandlersInit /\ [][HandlersNext]_vars

----------------------------------------------------------------------------
(* Properties of the error handlers (SpecHandlers) *)

\* the last task was the report of an unhandled rejection
Rejected == trace # <<>> /\ trace[1].name = "unhandledrejection"

\* the entry the last task put in the buffer
Pushed == LET i == CHOOSE i \in Ops("push") : TRUE
          IN CHOOSE e \in Range(logBuffer) \cup UNION { Range(r.logs) : r \in inflight } :
                e.timestamp = trace[i].stamp

\* C22: after the report of an unhandled rejection whose reason R is not
\* an Error, in a page, a worker or a service worker where the module
\* listens (forwardErrors), exactly one entry was enqueued: level "error", message "[Unhandled Promise Rejection] "
\* followed by String(R), module the current context followed by ":window",
\* ":worker" or ":service-worker".
C22_OneRecordPerRejection ==
    (Rejected /\ trace[2].reason.t # "error" /\ Listening) =>
       /\ Cardinality(Ops("push")) = 1
       /\ Pushed.level = "error"
       /\ Pushed.message = "[Unhandled Promise Rejection] " \o StringOf(trace[2].reason)
       /\ Pushed.module = currentModuleContext \o ":" \o
             (IF hasWindow THEN "window"
              ELSE IF isServiceWorker THEN "service-worker" ELSE "worker")

\* a rejection with the reason "network down" in a worker, under the
\* context checkout, put its entry in the buffer
C22_Witness ==
    /\ Rejected
    /\ isWorker /\ ~isServiceWorker
    /\ forwardErrors
    /\ trace[2].reason = JsString("network down")
    /\ Cardinality(Ops("push")) = 1
    /\ Pushed.message = "[Unhandled Promise Rejection] network down"
    /\ Pushed.module = "checkout:worker"

\* a rejection whose reason has no string form was reported in a page, and
\* the listener threw before it made an entry
C22_ListenerThrew ==
    /\ Rejected
    /\ hasWindow
    /\ forwardErrors
    /\ StringThrows(trace[2].reason)
    /\ Ops("throw") # {}
    /\ Ops("push") = {}
    /\ logBuffer = <<>>

\* the last task was the report of an error event or a rejection
Reported == trace # <<>> /\ trace[1].name \in {"unhandledrejection", "error"}

\* C30: a handler stops the default handling of its event if and only if
\* the module runs in a page; in a worker or a service worker the entry is
\* enqueued and the default handling goes on.
C30_PreventDefaultIffWindow ==
    (Reported /\ Listening) =>
       /\ (Ops("preventDefault") # {}) <=> hasWindow
       /\ (isWorker \/ isServiceWorker) => Cardinality(Ops("push")) = 1

\* an uncaught exception was reported in a service worker: the entry is in
\* the buffer and the default handling was not stopped
C30_Witness ==
    /\ Reported
    /\ trace[1].name = "error"
    /\ isServiceWorker
    /\ Listening
    /\ Cardinality(Ops("push")) = 1
    /\ Ops("preventDefault") = {}
    /\ Pushed.module = currentModuleContext \o ":service-worker"

\* a rejection was reported in a page with listeners, and its default
\* handling was not stopped
C30_NotPreventedInWindow ==
    /\ Reported
    /\ hasWindow
    /\ Listening
    /\ Ops("preventDefault") = {}

----------------------------------------------------------------------------
(* Properties of the wrappers and of the send (Spec) *)

\* the step is a console call of the application at a level that is not
\* one of the configured levels
UnwrappedCall ==
    /\ trace' # <<>>
    /\ trace'[1].name = "console"
    /\ trace'[2].level \notin levels

\* C26: a call to a console method whose level is not in the configured
\* levels makes no entry and leaves the buffer, the delay timer, the
\* pending requests and the clock of the entries as they were; all it does
\* is the native call.
C26_UnwrappedLevelUntouched ==
    [][UnwrappedCall =>
          /\ UNCHANGED <<logBuffer, flushTimeout, timers, inflight, clock,
                         fetchCount, sentStamps, currentModuleContext>>
          /\ Len(trace') = 2
          /\ trace'[2].op = "native"]_vars

\* console.warn was called while "warn" is not configured, with an entry
\* in the buffer and the delay timer pending: both are still there
C26_Witness ==
    /\ "warn" \notin levels
    /\ trace # <<>>
    /\ trace[1].name = "console"
    /\ trace[2].level = "warn"
    /\ trace[2].op = "native"
    /\ Len(logBuffer) = 1
    /\ trace[1].buffered = 1
    /\ flushTimeout \in timers

\* C28: when a task of the application (a console call, a burst of them)
\* returns, every request its flushes started is still pending: the task
\* saw no response, and it returned without one.  Responses and failures
\* come in tasks of their own.
C28_ReturnsBeforeDelivery ==
    /\ \A i \in Ops("fetch") :
          /\ \E r \in inflight : r.req = trace[i].req
          /\ \A j \in Ops("settled") : trace[j].req # trace[i].req
    /\ Ops("settled") # {} => trace[1].name = "settle"

\* a burst filled the buffer: the flush it triggered started a request and
\* returned, and the burst returned with the request pending
C28_Witness ==
    /\ trace # <<>>
    /\ trace[1].name = "rapid"
    /\ Ops("fetch") # {}
    /\ Ops("flushReturn") # {}
    /\ \A i \in Ops("fetch") : \E r \in inflight : r.req = trace[i].req

----------------------------------------------------------------------------
(* The safety interval (SpecLive): the application keeps running, and the  *)
(* runtime keeps firing the interval timer; nothing is assumed of the      *)
(* delay timer or of the network.                                          *)

LiveInit ==
    /\ levels = AllLevels
    /\ SILENT_ON_ERROR = TRUE
    /\ hasFetch \in BOOLEAN
    /\ hasWindow = TRUE
    /\ Defaults
    /\ ClientInit
    /\ ServerInit

LiveNext ==
    \/ \E c \in Calls : ConsoleCall(c[1], c[2])
    \/ \E t \in timers : TimerFires(t)
    \/ IntervalFires
    \/ \E r \in inflight, outcome \in Outcomes : FetchSettles(r, outcome)

SpecLive == LiveInit /\ [][LiveNext]_vars /\ WF_vars(IntervalFires)

\* C29: every entry in the buffer is eventually handed to sendLogs, with
\* no assumption on the delay timer; and the interval's flush leaves
\* nothing behind, so an entry waits for one interval at most.
C29_EventuallyHandedOver ==
    /\ \A n \in 1..MaxTasks :
          (n \in Stamps(logBuffer)) ~> (n \in sentStamps /\ n \notin Stamps(logBuffer))
    /\ [][(trace' # <<>> /\ trace'[1].name = "interval") =>
             /\ logBuffer' = <<>>
             /\ Stamps(logBuffer) \subseteq sentStamps']_vars

\* the interval fired while an entry waited for its delay timer: the
\* entry went to sendLogs and the timer was cleared
C29_Witness ==
    /\ trace # <<>>
    /\ trace[1].name = "interval"
    /\ trace[1].buffered > 0
    /\ Ops("sendLogs") # {}
    /\ Ops("clearTimeout") # {}
    /\ logBuffer = <<>>
    /\ timers = {}

----------------------------------------------------------------------------
(* Injection: transform and transformIndexHtml.  An artifact's text is a   *)
(* sequence of pieces: statements for a script; tags, text and script      *)
(* elements for a page.  A path is its directories, the stem and the       *)
(* extension of the file name.                                             *)

forwardModuleId == "virtual:console-forward"

Path(dirs, stem, ext) == [dirs |-> dirs, stem |-> stem, ext |-> ext]

\* a path that does not begin with a slash
RelPath(dirs, stem, ext) == [dirs |-> dirs, stem |-> stem, ext |-> ext, relative |-> TRUE]

\* the last segment of a path: the stem, the text before the first dot, and
\* the rest; a dot file has an empty stem, a path that ends with a slash
\* has an empty file name
FileName(id) ==
    IF id.ext = "" THEN id.stem ELSE id.stem \o "." \o id.ext

\* id.split("/")
Parts(id) ==
    (IF "relative" \in DOMAIN id THEN <<>> ELSE << "" >>)
       \o id.dirs \o << FileName(id) >>

\* the glob patterns of the options, by what micromatch makes of them
Glob(pattern) ==
    CASE pattern = "**/*.html" -> [form |-> "ext", ext |-> "html"]
      [] pattern = "**/*.ts" -> [form |-> "ext", ext |-> "ts"]
      [] pattern = "**/node_modules/**" -> [form |-> "dir", dir |-> "node_modules"]
      [] pattern = "**/vendor/**" -> [form |-> "dir", dir |-> "vendor"]

GlobMatch(id, pattern) ==
    LET g == Glob(pattern)
    IN IF g.form = "ext" THEN id.ext = g.ext
       ELSE \E i \in 1..Len(id.dirs) : id.dirs[i] = g.dir

\* micromatch.isMatch(id, patterns): one of the patterns matches
isMatch(id, patterns) == \E i \in 1..Len(patterns) : GlobMatch(id, patterns[i])

\* defaultModuleExtractor(id)
defaultModuleExtractor(id) ==
    LET parts == Parts(id)
        n == Len(parts)
        srcs == { i \in 1..n : parts[i] = "src" }
        srcIndex == IF srcs = {} THEN 0
                    ELSE CHOOSE i \in srcs : \A j \in srcs : i <= j
        \* parts[parts.length - 2] is undefined for a path of one segment
        parentDir == IF n >= 2 THEN parts[n - 1] ELSE ""
        filename == parts[n]
    IN IF srcIndex > 0 /\ srcIndex < n - 1 THEN parts[srcIndex + 1]
       ELSE IF parentDir \notin {"", ".", ".."} THEN parentDir
       \* filename.split(".")[0], whatever it is, unless the file name is empty
       ELSE IF filename # "" THEN id.stem ELSE "unknown"

\* the statements of the bootstrap
ImportSetModuleContext ==
    [k |-> "import", from |-> forwardModuleId, names |-> << "setModuleContext" >>]
CallSetModuleContext(context) == [k |-> "setModuleContext", arg |-> context]
ImportForward == [k |-> "import", from |-> forwardModuleId, names |-> <<>>]

\* statements of the application
Log(text) == [k |-> "log", arg |-> text]
ImportFlush == [k |-> "import", from |-> forwardModuleId, names |-> << "default" >>]

\* pieces of a page
Tag(v) == [k |-> "tag", v |-> v]
Script(module, body) == [k |-> "script", module |-> module, body |-> body]

\* text.includes(forwardModuleId)
Mentions(piece) ==
    \/ piece.k = "import" /\ piece.from = forwardModuleId
    \/ piece.k = "script" /\ \E i \in 1..Len(piece.body) :
                                 /\ piece.body[i].k = "import"
                                 /\ piece.body[i].from = forwardModuleId

Includes(text) == \E i \in 1..Len(text) : Mentions(text[i])

HasTag(html, v) == \E i \in 1..Len(html) : html[i] = Tag(v)

\* html.replace(tag, tag + "\n" + scriptTag): the first occurrence
InsertAfter(html, v, scriptTag) ==
    LET i == CHOOSE i \in 1..Len(html) :
                 /\ html[i] = Tag(v)
                 /\ \A j \in 1..(i - 1) : html[j] # Tag(v)
    IN SubSeq(html, 1, i) \o << Tag("\n"), scriptTag >> \o SubSeq(html, i + 1, Len(html))

\* (mutant) transform looks at the inject patterns only
transform_IncludeWins(code, id) ==
    IF ~enabled \/ Len(injectPatterns) = 0 THEN code
    ELSE IF id.ext = "html" THEN code
    ELSE IF isMatch(id, injectPatterns)
         THEN IF Includes(code) THEN code
              ELSE << ImportSetModuleContext,
                      CallSetModuleContext(defaultModuleExtractor(id)),
                      ImportForward >> \o code
         ELSE code

\* transform(code, id) of the plugin; an undefined result leaves the code
\* as it is
transform(code, id) ==
    IF ~enabled \/ Len(injectPatterns) = 0 THEN code
    ELSE IF id.ext = "html" THEN code
    ELSE IF Len(excludePatterns) > 0 /\ isMatch(id, excludePatterns) THEN code
    ELSE IF isMatch(id, injectPatterns)
         THEN IF Includes(code) THEN code
              ELSE << ImportSetModuleContext,
                      CallSetModuleContext(defaultModuleExtractor(id)),
                      ImportForward >> \o code
         ELSE code

\* the script element transformIndexHtml inserts
ScriptTag(moduleContext) ==
    Script(TRUE, << ImportSetModuleContext,
                    CallSetModuleContext(moduleContext),
                    ImportForward >>)

\* where the script element goes: behind <head>, else behind <body>, else
\* behind <html>, else in front of the page
Inject(html, scriptTag) ==
    IF HasTag(html, "<head>") THEN InsertAfter(html, "<head>", scriptTag)
    ELSE IF HasTag(html, "<body>") THEN InsertAfter(html, "<body>", scriptTag)
    ELSE IF HasTag(html, "<html>") THEN InsertAfter(html, "<html>", scriptTag)
    ELSE << scriptTag, Tag("\n") >> \o html

\* (mutant) transformIndexHtml does not look for the marker
transformIndexHtml_NoMarkerCheck(html, id) ==
    IF ~enabled \/ Len(injectPatterns) = 0 THEN html
    ELSE IF Len(excludePatterns) > 0 /\ isMatch(id, excludePatterns) THEN html
    ELSE IF isMatch(id, injectPatterns)
         THEN Inject(html, ScriptTag(defaultModuleExtractor(id)))
         ELSE html

\* transformIndexHtml(html, ctx), id being ctx.filename
transformIndexHtml(html, id) ==
    IF ~enabled \/ Len(injectPatterns) = 0 THEN html
    ELSE IF Len(excludePatterns) > 0 /\ isMatch(id, excludePatterns) THEN html
    ELSE IF isMatch(id, injectPatterns)
         THEN IF Includes(html) THEN html
              ELSE Inject(html, ScriptTag(defaultModuleExtractor(id)))
         ELSE html

\* The artifacts of a small application: a page with a classic and a
\* module script, a page without head, a page that is only a fragment,
\* a script under src, one under node_modules, one that imports the
\* client module itself, and a page under vendor.
Artifact(id, code) == [id |-> id, code |-> code, text |-> code, passes |-> 0, ran |-> 0]

Sources ==
    [ index |-> Artifact(Path(<< "app" >>, "index", "html"),
                         << Tag("<html>"), Tag("<head>"),
                            Script(FALSE, << Log("early") >>),
                            Tag("</head>"), Tag("<body>"),
                            Script(TRUE, << Log("main") >>),
                            Tag("</body>"), Tag("</html>") >>),
      nohead |-> Artifact(Path(<< "app", "pages" >>, "about", "html"),
                          << Tag("<html>"), Tag("<body>"), Tag("<p>"),
                             Tag("</body>"), Tag("</html>") >>),
      fragment |-> Artifact(Path(<< "app", "vendor" >>, "widget", "html"),
                            << Tag("<p>") >>),
      view |-> Artifact(Path(<< "app", "src", "cart" >>, "view", "ts"),
                        << Log("cart") >>),
      lib |-> Artifact(Path(<< "app", "node_modules", "lib" >>, "index", "ts"),
                       << Log("lib") >>),
      flush |-> Artifact(Path(<< "app", "src" >>, "flush", "ts"),
                         << ImportFlush, Log("flush") >>) ]

\* the plugin's own transform of an artifact, by its kind: pages go
\* through transformIndexHtml, everything through transform
Transformed(text, id) ==
    IF id.ext = "html" THEN transformIndexHtml(text, id) ELSE transform(text, id)

\* The bundler hands a script to transform.
Transform(a) ==
    /\ files[a].id.ext # "html"
    /\ files[a].passes < 2
    /\ files' = [files EXCEPT ![a].text = transform(@, files[a].id),
                              ![a].passes = @ + 1]
    /\ UNCHANGED <<configVars, clientVars, serverVars>>

\* The bundler hands a page to transformIndexHtml.
TransformIndexHtml(a) ==
    /\ files[a].id.ext = "html"
    /\ files[a].passes < 2
    /\ files' = [files EXCEPT ![a].text = transformIndexHtml(@, files[a].id),
                              ![a].passes = @ + 1]
    /\ UNCHANGED <<configVars, clientVars, serverVars>>

InjectOptions == { << "**/*.html" >>, << "**/*.html", "**/*.ts" >>, << "**/*.ts" >>, <<>> }
ExcludeOptions == { << "**/node_modules/**" >>, <<>>,
                    << "**/node_modules/**", "**/vendor/**" >> }

InjectInit ==
    /\ levels = AllLevels
    /\ SILENT_ON_ERROR = TRUE
    /\ hasFetch = TRUE
    /\ hasWindow = TRUE
    /\ isWorker = FALSE
    /\ isServiceWorker = FALSE
    /\ forwardErrors = TRUE
    /\ enabled \in BOOLEAN
    /\ injectPatterns \in InjectOptions
    /\ excludePatterns \in ExcludeOptions
    /\ files = Sources
    /\ ClientInit
    /\ ServerInit

InjectNext ==
    \/ \E a \in DOMAIN files : Transform(a)
    \/ \E a \in DOMAIN files : TransformIndexHtml(a)

SpecInject == InjectInit /\ [][InjectNext]_vars

----------------------------------------------------------------------------
(* Properties of the injection (SpecInject) *)

\* the artifact has the bootstrap
Injected(a) == files[a].text # files[a].code

C24_ExcludeWins ==
    \A a \in DOMAIN files :
       /\ isMatch(files[a].id, excludePatterns) => ~Injected(a)
       /\ Injected(a) => /\ isMatch(files[a].id, injectPatterns)
                         /\ ~isMatch(files[a].id, excludePatterns)

\* a script under node_modules that matches an inject pattern too went
\* through transform and has no bootstrap, while a script under src has it
C24_Witness ==
    /\ enabled
    /\ isMatch(files["lib"].id, injectPatterns)
    /\ isMatch(files["lib"].id, excludePatterns)
    /\ files["lib"].passes >= 1
    /\ ~Injected("lib")
    /\ Injected("view")

----------------------------------------------------------------------------
(* A page and its scripts run (SpecPage).  The artifacts are as the        *)
(* plugin served them.  Classic scripts of a page run while the page is    *)
(* parsed; module scripts are deferred and run after it, in document       *)
(* order; the imports of a module are evaluated before its statements.     *)

\* (mutant) load returns the client code whatever enabled is
loadForward_AlwaysClient(s) ==
    IF s.loaded THEN s
    ELSE [Did(s, [op |-> "load"]) EXCEPT !.loaded = TRUE]

\* load(resolvedForwardModuleId) and the first evaluation of the module it
\* returns: the client code, or the stub when the plugin is disabled
loadForward(s) ==
    IF s.loaded THEN s
    ELSE IF enabled
         THEN [Did(s, [op |-> "load"]) EXCEPT !.loaded = TRUE]
         ELSE Did(s, [op |-> "loadStub"])

\* setModuleContext(context) of the client module
setModuleContext(context, s) ==
    [Did(s, [op |-> "setModuleContext", context |-> context])
       EXCEPT !.currentModuleContext = context]

\* the statements of a module in evaluation order: imports first
Hoist(stmts) ==
    SelectSeq(stmts, LAMBDA st : st.k = "import")
       \o SelectSeq(stmts, LAMBDA st : st.k # "import")

\* the scripts of an artifact in the order the runtime runs them
Units(a) ==
    IF files[a].id.ext # "html" THEN << Hoist(files[a].text) >>
    ELSE LET scripts == SelectSeq(files[a].text, LAMBDA p : p.k = "script")
             classic == SelectSeq(scripts, LAMBDA p : ~p.module)
             modules == SelectSeq(scripts, LAMBDA p : p.module)
         IN [i \in 1..Len(classic) |-> classic[i].body]
               \o [i \in 1..Len(modules) |-> Hoist(modules[i].body)]

HasSetModuleContext(stmts) ==
    \E i \in 1..Len(stmts) : stmts[i].k = "setModuleContext"

\* a script of the artifact that ran before called setModuleContext
CtxSetBefore(a) ==
    \E u \in 1..files[a].ran : HasSetModuleContext(Units(a)[u])

\* the statements of a script of artifact a, one after the other; set: a
\* setModuleContext of the artifact ran before
RECURSIVE exec(_, _, _, _)
exec(stmts, a, set, s) ==
    IF stmts = <<>> \/ s.threw THEN s
    ELSE LET st == Head(stmts)
         IN IF st.k = "import"
            THEN exec(Tail(stmts), a, set,
                      IF st.from = forwardModuleId THEN loadForward(s) ELSE s)
            ELSE IF st.k = "setModuleContext"
            THEN IF s.loaded
                 THEN exec(Tail(stmts), a, TRUE, setModuleContext(st.arg, s))
                 ELSE \* the stub exports no setModuleContext
                      [Did(s, [op |-> "throw"]) EXCEPT !.threw = TRUE]
            ELSE exec(Tail(stmts), a, set,
                      consoleMethod("log", << JsString(st.arg) >>,
                                    Did(s, [op |-> "stmt", artifact |-> a,
                                            set |-> set,
                                            context |-> s.currentModuleContext,
                                            patched |-> s.loaded])))

\* The runtime runs the next script of artifact a.
RunScript(a) ==
    /\ files[a].ran < Len(Units(a))
    /\ LET s == exec(Units(a)[files[a].ran + 1], a, CtxSetBefore(a),
                     Did(Start("script"), [op |-> "run", artifact |-> a,
                                           unit |-> files[a].ran + 1]))
       IN /\ Within(s)
          /\ Commit(s)
    /\ files' = [files EXCEPT ![a].ran = @ + 1]
    /\ UNCHANGED <<configVars, serverVars>>

PageArtifacts == {"index", "view", "flush"}

\* what the plugin serves: each artifact after its transform
Served ==
    [a \in PageArtifacts |->
        [Sources[a] EXCEPT !.text = Transformed(@, Sources[a].id), !.passes = 1]]

\* The application calls console.<level> from a handler of its own.
PageCall(level, args) ==
    /\ tasks = 0
    /\ ConsoleCall(level, args)

PageInit ==
    /\ levels = AllLevels
    /\ SILENT_ON_ERROR = TRUE
    /\ hasFetch = TRUE
    /\ hasWindow = TRUE
    /\ isWorker = FALSE
    /\ isServiceWorker = FALSE
    /\ forwardErrors = TRUE
    /\ enabled \in BOOLEAN
    /\ injectPatterns \in { << "**/*.html" >>, << "**/*.html", "**/*.ts" >> }
    /\ excludePatterns = << "**/node_modules/**" >>
    /\ files = Served
    /\ loaded = FALSE
    /\ ModuleInit
    /\ ServerInit

PageNext ==
    \/ \E a \in DOMAIN files : RunScript(a)
    \/ \E c \in Calls : PageCall(c[1], c[2])
    \/ UnhandledRejection(JsString("network down"))
    \/ \E t \in timers : TimerFires(t)
    \/ IntervalFires

SpecPage == PageInit /\ [][PageNext]_vars

----------------------------------------------------------------------------
(* Properties of a page run (SpecPage) *)

\* C25: with enabled false no artifact is changed, the module the
\* artifacts import is the stub (no console method is patched, no listener
\* and no timer is registered), and no entry is made, buffered or sent.
C25_DisabledIsInert ==
    ~enabled =>
       /\ \A a \in DOMAIN files : files[a].text = files[a].code
       /\ ~loaded
       /\ ~Listening
       /\ ~ENABLED IntervalFires
       /\ logBuffer = <<>> /\ clock = 0
       /\ flushTimeout = 0 /\ timers = {}
       /\ inflight = {} /\ fetchCount = 0 /\ sentStamps = {}
       /\ Ops("console") \cup Ops("push") \cup Ops("setTimeout")
             \cup Ops("sendLogs") \cup Ops("load") = {}

\* with enabled false, a script that imports the module itself ran: the
\* stub was evaluated and the script's console.log was the native one
C25_Witness ==
    /\ ~enabled
    /\ trace # <<>>
    /\ trace[1].name = "script"
    /\ trace[2].artifact = "flush"
    /\ Ops("loadStub") # {}
    /\ Ops("native") # {}
    /\ logBuffer = <<>>

\* the entry of a push of the last task
EntryOf(i) == CHOOSE e \in Range(logBuffer) : e.timestamp = trace[i].stamp

\* C27: when a statement of an injected artifact's own code runs,
\* setModuleContext was called for the artifact before and the context is
\* not "unknown"; the entries its log calls make carry that context.
C27_ContextSetBeforeOwnCode ==
    \A i \in Ops("stmt") :
       Injected(trace[i].artifact) =>
          /\ trace[i].set
          /\ trace[i].context # "unknown"
          /\ \A j \in Ops("push") :
                j > i => EntryOf(j).module # "unknown"

\* the classic script of the injected page ran before any module script:
\* the console is not patched yet and no context is set
C27_ClassicScriptRanFirst ==
    /\ trace # <<>>
    /\ trace[1].name = "script"
    /\ trace[2].artifact = "index"
    /\ Injected("index")
    /\ \E i \in Ops("stmt") : /\ ~trace[i].set
                              /\ ~trace[i].patched
                              /\ trace[i].context = "unknown"
    /\ Ops("push") = {}

\* the statements of an injected script, and of the module scripts of an
\* injected page, run with the context set
C27_ModuleScriptsHaveContext ==
    \A i \in Ops("stmt") :
       (Injected(trace[i].artifact) /\ ~(trace[2].artifact = "index" /\ trace[2].unit = 1)) =>
          /\ trace[i].set
          /\ trace[i].patched
          /\ trace[i].context # "unknown"
          /\ \A j \in Ops("push") : j > i => EntryOf(j).module # "unknown"

----------------------------------------------------------------------------
(* Requests in progress at once (SpecServer) *)

\* the module names of the entries of a batch, as the loggers are named
BatchNames(batch) ==
    { IF batch[k].module # "" THEN batch[k].module ELSE "unknown" :
         k \in { n \in 1..Len(batch) : batch[n] # JsNull } }

\* C31: with several requests in progress, the body of a request is made
\* of its own chunks, in order, and nothing is parsed or forwarded before
\* its end; the end handler forwards logs of its own request only, in one
\* run; the logger cache is all a request sees of the others, and a
\* handler changes it only by adding loggers for names of its own batch.
C31_RequestsIndependent ==
    /\ \A i \in 1..Len(requests) :
          /\ requests[i].state = "reading" =>
                /\ requests[i].forwarded = <<>>
                /\ requests[i].responses = <<>>
                /\ requests[i].body \o Flatten(requests[i].rest)
                      = Flatten(requests[i].payload.chunks)
          /\ requests[i].state = "answered" =>
                /\ requests[i].body = Flatten(requests[i].payload.chunks)
                /\ requests[i].payload.json =>
                      \A k \in 1..Len(requests[i].forwarded) :
                         requests[i].forwarded[k].stamp
                            = requests[i].payload.batch[k].timestamp
    /\ EndRan =>
          /\ \A k \in SrvOps("logger") :
                \E n \in 1..Len(requests[Ended].forwarded) :
                   requests[Ended].forwarded[n] = srvTrace[k]
          /\ srvTrace[2].sinks \subseteq loggerCache
          /\ loggerCache \ srvTrace[2].sinks
                \subseteq BatchNames(requests[Ended].payload.batch)
    /\ ~EndRan /\ srvTrace # <<>> =>
          SrvOps("logger") \cup SrvOps("createLogger") \cup SrvOps("respond") = {}

\* a request was answered and its logs forwarded while another request
\* had part of its body read and the rest still to come
C31_Witness ==
    /\ EndRan
    /\ requests[Ended].forwarded # <<>>
    /\ \E j \in 1..Len(requests) :
          /\ j < Ended
          /\ requests[j].state = "reading"
          /\ requests[j].body # <<>>
          /\ requests[j].rest # <<>>
          /\ requests[j].payload.batch # requests[Ended].payload.batch

----------------------------------------------------------------------------
(* The levels option and the error handlers (SpecLevels): console calls    *)
(* and error events under a configuration of levels with or without        *)
(* "error".                                                                *)

LevelOptions == { AllLevels, {"log", "warn"}, {"error"} }

LevelCalls == { <<"log", << JsString("hello") >> >>,
                <<"error", << JsString("bad") >> >>,
                <<"debug", << JsString("detail") >> >> }

LevelsInit ==
    /\ levels \in LevelOptions
    /\ SILENT_ON_ERROR = TRUE
    /\ hasFetch = TRUE
    /\ \E rt \in Runtimes : /\ hasWindow = rt[1]
                           /\ isWorker = rt[2]
                           /\ isServiceWorker = rt[3]
    /\ forwardErrors \in BOOLEAN
    /\ enabled = TRUE
    /\ injectPatterns = << "**/*.html" >>
    /\ excludePatterns = << "**/node_modules/**" >>
    /\ files = <<>>
    /\ ClientInit
    /\ ServerInit

LevelsNext ==
    \/ \E c \in LevelCalls : PageCall(c[1], c[2])
    \/ \E reason \in {JsString("network down"), JsError("boom", V8Stack)} :
          UnhandledRejection(reason)
    \/ \E event \in ErrorEvents : UncaughtException(event)
    \/ \E t \in timers : TimerFires(t)

SpecLevels == LevelsInit /\ [][LevelsNext]_vars

\* the entries the client holds or has sent
Enqueued == Range(logBuffer) \cup UNION { Range(r.logs) : r \in inflight }

\* C32: every entry the client makes has one of the configured levels,
\* whether a console call, an uncaught exception or an unhandled rejection
\* made it.
C32_OnlyConfiguredLevels ==
    \A e \in Enqueued : e.level \in levels

\* with "error" left out of the levels, a rejection was reported in a page
\* and its entry is in the buffer with level "error"
C32_ErrorLevelUnconfigured ==
    /\ "error" \notin levels
    /\ Rejected
    /\ hasWindow
    /\ \E e \in Range(logBuffer) : e.level = "error"

\* the entries of console calls have configured levels
C32_WrappersKeepToLevels ==
    (trace # <<>> /\ trace[1].name = "console") =>
       \A i \in Ops("push") : Pushed.level \in levels

----------------------------------------------------------------------------
(* Attribution with several injected artifacts (SpecPage) *)

\* the module name the plugin gave the artifact
ModuleOf(a) == defaultModuleExtractor(files[a].id)

\* C33: an entry made by a log call of an injected artifact carries the
\* module name of that artifact, also when another injected artifact set
\* its own context in between.
C33_AttributedToCaller ==
    \A i \in Ops("stmt") :
       Injected(trace[i].artifact) =>
          \A j \in Ops("push") :
             (j > i /\ \A k \in Ops("stmt") : ~(i < k /\ k < j)) =>
                EntryOf(j).module = ModuleOf(trace[i].artifact)

\* the page and the script under src/cart are both injected; the page's
\* bootstrap ran, then the script, then the page's own module script: its
\* log call made an entry with the module of the script
C33_AttributedToOther ==
    /\ Injected("index") /\ Injected("view")
    /\ trace # <<>>
    /\ trace[1].name = "script"
    /\ trace[2].artifact = "index"
    /\ trace[2].unit = 3
    /\ files["view"].ran = 1
    /\ \E i \in Ops("stmt") : trace[i].set /\ trace[i].patched
                                 /\ trace[i].context = "cart"
    /\ \E j \in Ops("push") : EntryOf(j).module = "cart"
    /\ ModuleOf("index") = "app"

----------------------------------------------------------------------------
(* The default module extractor over paths (SpecExtract): one artifact     *)
(* whose path is drawn from the segments below, and the module name its    *)
(* bootstrap is given.                                                     *)

Segments == {"src", "app", "cart", ".", "..", ""}

DirLists == { <<>> } \cup { << a >> : a \in Segments }
               \cup { << a, b >> : a, b \in Segments }
               \cup { << "app", "src", a >> : a \in Segments }

\* file names as <<stem, rest>>: view.ts, index.html, view.test.ts, .env,
\* Makefile, and none
FileNames == { << "view", "ts" >>, << "index", "html" >>, << "view", "test.ts" >>,
               << "", "env" >>, << "Makefile", "" >>, << "", "" >> }

ProbedPaths ==
    { Path(d, f[1], f[2]) : d \in DirLists, f \in FileNames }
       \cup { RelPath(d, f[1], f[2]) : d \in DirLists, f \in FileNames }

\* The plugin builds the bootstrap of the artifact: moduleExtractor(id)
\* and the call of setModuleContext with its result.
ExtractModule(a) ==
    /\ files[a].passes = 0
    /\ files' = [files EXCEPT
          ![a].text = << ImportSetModuleContext,
                         CallSetModuleContext(defaultModuleExtractor(files[a].id)),
                         ImportForward >> \o @,
          ![a].passes = 1]
    /\ UNCHANGED <<configVars, clientVars, serverVars>>

ExtractInit ==
    /\ levels = AllLevels
    /\ SILENT_ON_ERROR = TRUE
    /\ hasFetch = TRUE
    /\ hasWindow = TRUE
    /\ isWorker = FALSE
    /\ isServiceWorker = FALSE
    /\ forwardErrors = TRUE
    /\ enabled = TRUE
    /\ injectPatterns = << "**/*.html" >>
    /\ excludePatterns = << "**/node_modules/**" >>
    /\ \E id \in ProbedPaths : files = [probe |-> Artifact(id, << Log("hello") >>)]
    /\ ClientInit
    /\ ServerInit

ExtractNext == \E a \in DOMAIN files : ExtractModule(a)

SpecExtract == ExtractInit /\ [][ExtractNext]_vars

\* the module name in the bootstrap of the probed artifact
Extracted == files["probe"].text[2].arg

\* C34: the name is the segment behind the first src segment when that
\* segment is a directory; otherwise the parent directory when there is
\* one and it is not "." or ".."; otherwise the file name without its
\* extension; otherwise "unknown"; and it is never the empty string.
C34_ExtractorAsStated ==
    files["probe"].passes = 1 =>
       LET id == files["probe"].id
           parts == Parts(id)
           n == Len(parts)
           srcs == { i \in 1..(n - 1) : parts[i] = "src" }
           first == CHOOSE i \in srcs : \A j \in srcs : i <= j
       IN /\ Extracted # ""
          /\ Extracted =
                IF srcs # {} /\ first + 1 < n THEN parts[first + 1]
                ELSE IF n >= 2 /\ parts[n - 1] \notin {"", ".", ".."} THEN parts[n - 1]
                ELSE IF id.stem # "" THEN id.stem
                ELSE "unknown"

\* the bootstrap of the dot file .env, given as a path of one segment, has
\* the empty string for the module name
C34_DotFileHasNoName ==
    /\ files["probe"].passes = 1
    /\ files["probe"].id = RelPath(<<>>, "", "env")
    /\ Extracted = ""

\* C34 for paths without empty segments and dot files
C34_ExtractorOnPlainPaths ==
    (/\ files["probe"].passes = 1
     /\ files["probe"].id.stem # ""
     /\ \A k \in 1..Len(files["probe"].id.dirs) : files["probe"].id.dirs[k] # "") =>
       C34_ExtractorAsStated

----------------------------------------------------------------------------
(* The record of an uncaught exception (SpecHandlers) *)

\* the last task was the report of an uncaught exception to a listener
ExceptionReported ==
    /\ trace # <<>>
    /\ trace[1].name = "error"
    /\ Listening

\* the parts that are not empty, joined by single spaces
JoinNonEmpty(parts) == Join(SelectSeq(parts, LAMBDA part : part # ""), " ")

\* C35: the entry of an uncaught exception has level "error"; its message
\* is the tag, the extracted message, the stack text when there is one and
\* "at <file>:<line>:<col>" when the event names a file, joined by single
\* spaces.
C35_ExceptionMessageAsStated ==
    ExceptionReported =>
       LET details == formatErrorDetails(trace[2].event)
       IN /\ Cardinality(Ops("push")) = 1
          /\ Pushed.level = "error"
          /\ Pushed.message =
                JoinNonEmpty(<< "[Uncaught Exception]",
                                details.message,
                                Str(details.stack),
                                IF details.filename # ""
                                THEN "at " \o details.filename \o ":"
                                        \o ToString(details.lineno) \o ":"
                                        \o ToString(details.colno)
                                ELSE "" >>)

\* the entry of an exception with a stack: the message has the string form
\* of the object that wraps the stack, and the stack text is in stacks
C35_StackOutsideMessage ==
    /\ ExceptionReported
    /\ Cardinality(Ops("push")) = 1
    /\ Pushed.message = "[Uncaught Exception] boom [object Object] "
                           \o "at http://localhost:5173/app.js:10:5"
    /\ Pushed.stacks = << V8Stack >>

\* C35 for the exceptions that come without a stack
C35_MessageWithoutStack ==
    (ExceptionReported /\ formatErrorDetails(trace[2].event).stack = <<>>) =>
       C35_ExceptionMessageAsStated

----------------------------------------------------------------------------
(* The message of a call with plain values (SpecFormat) *)

Plain == {"undefined", "string", "number", "boolean", "null"}

\* the last task was a console call whose arguments are all plain values
PlainCall ==
    /\ trace # <<>>
    /\ trace[1].name = "console"
    /\ \A i \in 1..Len(trace[2].args) : trace[2].args[i].t \in Plain

\* the default string form of a plain value
Rendering(arg) ==
    CASE arg.t = "undefined" -> "undefined"
      [] arg.t = "string" -> arg.v
      [] arg.t = "null" -> "null"
      [] OTHER -> arg.str

\* C36: a call with k plain arguments makes an entry whose message is the
\* k renderings joined by single spaces in argument order: "undefined" for
\* undefined, a string as it is, and the default string form for a number,
\* a boolean and null.
C36_MessageOfPlainValues ==
    PlainCall =>
       /\ Built
       /\ Entry.message = Join([i \in 1..Len(CallArgs) |-> Rendering(CallArgs[i])], " ")

\* console.log("hello", null) made no entry: the call threw
C36_NullThrows ==
    /\ PlainCall
    /\ CallArgs = << JsString("hello"), JsNull >>
    /\ Ops("throw") # {}
    /\ ~Built
    /\ logBuffer = <<>>

\* C36 for the calls without null
C36_MessageWithoutNull ==
    (PlainCall /\ \A i \in 1..Len(trace[2].args) : trace[2].args[i] # JsNull) =>
       C36_MessageOfPlainValues

----------------------------------------------------------------------------
(* The buffer and its timer between tasks (Spec) *)

\* the delay timer the module refers to is pending
TimerPending == flushTimeout # 0 /\ flushTimeout \in timers

\* C37: between tasks a delay timer is pending if and only if the buffer
\* is not empty, and the pending timer is the one the module refers to.
C37_TimerIffBuffered ==
    /\ TimerPending <=> logBuffer # <<>>
    /\ timers \subseteq {flushTimeout}

\* without fetch and with the failure warning on, a flush returned with
\* the warning's entry in the buffer and no timer pending
C37_BufferedWithoutTimer ==
    /\ ~hasFetch /\ ~SILENT_ON_ERROR /\ "warn" \in levels
    /\ Ops("flushReturn") # {}
    /\ Ops("report") # {}
    /\ Len(logBuffer) = 1
    /\ logBuffer[1].level = "warn"
    /\ timers = {}
    /\ flushTimeout = 0

\* C37 where the send does not fail before it returns
C37_TimerIffBufferedWithFetch == hasFetch => C37_TimerIffBuffered

----------------------------------------------------------------------------
(* The size of a batch (SpecBurst) *)

\* the last task was a flush the runtime or the application asked for,
\* on an empty buffer
FlushedEmpty ==
    /\ trace # <<>>
    /\ trace[1].name \in {"timeout", "interval", "beforeunload", "export"}
    /\ trace[1].buffered = 0

\* C38: a batch handed to sendLogs has between 1 and MAX_BUFFER_SIZE
\* entries; between tasks the buffer has fewer than MAX_BUFFER_SIZE; a
\* flush of an empty buffer calls neither sendLogs nor fetch.
C38_BatchSizes ==
    /\ \A i \in Ops("sendLogs") :
          Len(trace[i].logs) >= 1 /\ Len(trace[i].logs) <= MAX_BUFFER_SIZE
    /\ \A r \in inflight :
          Len(r.logs) >= 1 /\ Len(r.logs) <= MAX_BUFFER_SIZE
    /\ Len(logBuffer) < MAX_BUFFER_SIZE
    /\ FlushedEmpty => Ops("sendLogs") \cup Ops("fetch") \cup Ops("flushLogs") = {}

\* a burst of one entry more than the threshold sent one full batch and
\* left one entry in the buffer with its timer
C38_Witness ==
    /\ trace # <<>>
    /\ trace[1].name = "rapid"
    /\ trace[1].buffered = 0
    /\ Cardinality(Ops("sendLogs")) = 1
    /\ \A i \in Ops("sendLogs") : Len(trace[i].logs) = MAX_BUFFER_SIZE
    /\ Len(logBuffer) = 1
    /\ flushTimeout \in timers

----------------------------------------------------------------------------
(* The delay timer of a window (Spec) *)

\* C39: the entry that opens a window (the first in an empty buffer) arms
\* the delay timer and no later entry does; no timer is armed while one is
\* pending; while a window goes on, its timer stays as it is; when the
\* timer fires, all that is buffered goes to sendLogs; and after a timer
\* was cancelled none is pending until the next window arms its own.
C39_ArmedByFirstRecord ==
    /\ \A j \in Ops("push") :
          trace[j].buffered = 1 <=> (j < Len(trace) /\ trace[j + 1].op = "setTimeout")
    /\ \A j \in Ops("setTimeout") :
          trace[j].pending = {} /\ trace[j].delay = FLUSH_DELAY
    /\ logBuffer # <<>> => TimerPending
    /\ timers \subseteq {flushTimeout}
    /\ (trace # <<>> /\ trace[1].name = "timeout" /\ trace[1].buffered > 0) =>
          /\ Ops("flushLogs") # {}
          /\ \A j \in Ops("flushLogs") : j = 2 /\ Len(trace[j].buffered) = trace[1].buffered
    /\ \A j \in Ops("clearTimeout") :
          (\A k \in Ops("setTimeout") : k < j) => timers = {}

\* the timer fired, the send failed at once and its warning opened a
\* window without arming a timer
C39_WindowWithoutTimer ==
    /\ trace # <<>>
    /\ trace[1].name = "timeout"
    /\ \E j \in Ops("push") :
          /\ trace[j].buffered = 1
          /\ trace[j + 1].op # "setTimeout"
    /\ logBuffer # <<>>
    /\ timers = {}

\* C39 where the send does not fail before it returns
C39_ArmedByFirstRecordWithFetch == hasFetch => C39_ArmedByFirstRecord

----------------------------------------------------------------------------
(* The response to a request (SpecServer) *)

\* the end handler of the last step caught an error
Caught == SrvOps("serverError") # {}

\* C40: a POST whose body has ended has exactly one response, 200 with
\* {"success":true} or 400 with {"error":"Invalid JSON"}; a request still
\* being read or passed on has none; the end handler writes its response
\* once, as its last step, and writes 400 exactly when it caught an error
\* (the body was no JSON, had no logs, or forwarding an entry threw).
C40_ExactlyOneResponse ==
    /\ \A i \in 1..Len(requests) :
          /\ requests[i].state = "answered" =>
                /\ Len(requests[i].responses) = 1
                /\ requests[i].responses[1] \in {SuccessResponse, InvalidJsonResponse}
                /\ requests[i].responses[1] = SuccessResponse
                      <=> requests[i].payload.wellFormed
          /\ requests[i].state # "answered" => requests[i].responses = <<>>
    /\ EndRan =>
          /\ SrvOps("respond") = {Len(srvTrace)}
          /\ requests[Ended].responses = << srvTrace[Len(srvTrace)] >>
          /\ Caught <=> srvTrace[Len(srvTrace)] = InvalidJsonResponse
          /\ ~Caught <=> srvTrace[Len(srvTrace)] = SuccessResponse
          /\ \A k \in SrvOps("serverError") : k = Len(srvTrace) - 1
    /\ ~EndRan /\ srvTrace # <<>> => SrvOps("respond") = {}

\* a batch whose second entry made the forwarding throw was answered 400
\* alone, after its first entry had been given to a logger, while an
\* earlier request has its 200
C40_Witness ==
    /\ EndRan
    /\ Caught
    /\ SrvOps("logger") # {}
    /\ requests[Ended].responses = << InvalidJsonResponse >>
    /\ \E j \in 1..Len(requests) :
          /\ j # Ended
          /\ requests[j].responses = << SuccessResponse >>

====
